---- MODULE Spec2Model ----
(***************************************************************************)
(* A model of technotaggr: the inference pipeline (inference.py), the      *)
(* result logger (result_logger.py), the analyze command (cli.py) and the  *)
(* classifier discovery (model_loader.py).                                 *)
(***************************************************************************)
EXTENDS Integers, Sequences, FiniteSets, TLC

\* ------------------------------------------------------------------ bounds

\* longest configured classifier list
MaxClassifiers == 3
\* longest list of audio files handed to one run
MaxFiles == 2
\* most log_result / log_failure calls made on a free-standing ResultLogger
MaxLogCalls == 3
\* most entries of the classification-heads directory
MaxDirs == 3
\* save calls on one ResultLogger
MaxSaves == 2
\* segments of a model's short prediction matrix
MaxSegments == 7
\* results in a session file handed to postprocess_results
MaxItems == 2

\* ------------------------------------------------------------- small helpers

Min(a, b) == IF a <= b THEN a ELSE b

Range(s) == {s[i] : i \in DOMAIN s}

\* all sequences over S of length at most n
SeqsUpTo(S, n) == UNION {[1..k -> S] : k \in 0..n}

\* position of a value in a sequence that lists it
Rank(order, x) == CHOOSE i \in DOMAIN order : order[i] = x

\* the lists of at most n values of Range(order), in increasing order, none twice
SortedLists(order, n) ==
  {s \in SeqsUpTo(Range(order), n) :
     \A i, j \in DOMAIN s : i < j => Rank(order, s[i]) < Rank(order, s[j])}

\* a missing value
None == [some |-> FALSE]

Some(v) == [some |-> TRUE, value |-> v]

\* ------------------------------------------------------- the environment

\* audio files the runs are given
Paths == {"a.wav", "b.wav", "c.wav"}

\* the order Python's sort gives the paths
PathOrder == <<"a.wav", "b.wav", "c.wav">>

\* segments the front end cuts each audio file into (rows of the embeddings)
NumSegments(path) == IF path = "b.wav" THEN 2 ELSE 1

\* len(audio) / sample_rate of each file, in units of 1/10000 s
AudioDuration(path) == IF path = "b.wav" THEN 30007 ELSE 12344

\* the algorithm names Essentia classes are registered under
ALGORITHM_MAP ==
  {"TensorflowPredictMusiCNN", "TensorflowPredictEffnetDiscogs", "TensorflowPredict2D"}

\* EmbeddingModelConfig values
EmbMusicnn ==
  [name |-> "msd-musicnn-1", algorithm |-> "TensorflowPredictMusiCNN",
   model_path |-> "musicnn/msd-musicnn-1.pb", sample_rate |-> 16000,
   output_node |-> "model/dense/BiasAdd"]

EmbEffnet ==
  [name |-> "discogs-effnet-bs64-1", algorithm |-> "TensorflowPredictEffnetDiscogs",
   model_path |-> "discogs-effnet/discogs-effnet-bs64-1.pb", sample_rate |-> 16000,
   output_node |-> "PartitionedCall:1"]

\* a second family's model published under the first one's model name
EmbEffnetSameName ==
  [name |-> "msd-musicnn-1", algorithm |-> "TensorflowPredictEffnetDiscogs",
   model_path |-> "discogs-effnet/msd-musicnn-1.pb", sample_rate |-> 44100,
   output_node |-> "PartitionedCall:1"]

\* ClassifierConfig values (description and metadata play no part in inference)
ClfDanceability ==
  [name |-> "danceability", version |-> "1", algorithm |-> "TensorflowPredict2D",
   model_path |-> "danceability/danceability.pb", sample_rate |-> 16000,
   classes |-> <<"danceable", "not_danceable">>,
   input_node |-> "model/Placeholder", output_node |-> "model/Softmax",
   embedding_model |-> EmbMusicnn]

ClfMoodHappy ==
  [name |-> "mood_happy", version |-> "1", algorithm |-> "TensorflowPredict2D",
   model_path |-> "mood_happy/mood_happy.pb", sample_rate |-> 16000,
   classes |-> <<"happy", "non_happy">>,
   input_node |-> "model/Placeholder", output_node |-> "model/Softmax",
   embedding_model |-> EmbMusicnn]

ClfGenre ==
  [name |-> "genre", version |-> "2", algorithm |-> "TensorflowPredict2D",
   model_path |-> "genre/genre.pb", sample_rate |-> 16000,
   classes |-> <<"house", "techno">>,
   input_node |-> "serving_default_model_Placeholder", output_node |-> "PartitionedCall:0",
   embedding_model |-> EmbEffnet]

\* a descriptor with no "classes" key: load_classifier_config defaults it to []
ClfVoice ==
  [name |-> "voice", version |-> "unknown", algorithm |-> "TensorflowPredict2D",
   model_path |-> "voice/voice.pb", sample_rate |-> 16000,
   classes |-> <<>>,
   input_node |-> "model/Placeholder", output_node |-> "model/Softmax",
   embedding_model |-> EmbEffnetSameName]

ClassifierCatalogue == {ClfDanceability, ClfMoodHappy, ClfGenre, ClfVoice}

\* width of the vectors the graph stored at a classifier's model_path emits
OutputWidth(model_path) == 2

\* the order Python's sorted() gives the classifier names of the catalogue
NameOrder == <<"danceability", "genre", "mood_happy", "voice">>

\* the catalogue in the order of its directory names, as discover_classifiers lists it
CatalogueOrder == <<ClfDanceability, ClfGenre, ClfMoodHappy, ClfVoice>>

\* ------------------------------------------------------------------ state

VARIABLES
  \* InferencePipeline
  classifier_configs,    \* self.classifier_configs
  embedding_extractors,  \* self._embedding_extractors: model name -> handle
  classifiers,           \* self._classifiers: str(model_path) -> handle
  embeddings_cache,      \* self._embeddings_cache: (str(audio_path), model name) -> embeddings
  \* one analyze_audio call
  aa_pc,                 \* "idle" | "classifiers"
  audio_path,            \* its argument
  aa_index,              \* classifiers of the list already handled by the for loop
  result,                \* the AudioAnalysisResult under construction / returned
  aa_outcome,            \* "none" | "returned" | "raised": what the caller receives
  \* call spies on one analyze_audio call
  extract_calls,         \* model name -> calls of EmbeddingExtractor.extract
  extract_raised,        \* some extract call of this item raised
  run_log,               \* per loop iteration: the classifier and whether it succeeded
  loads,                 \* spy: the signals load_audio returned during this call
  \* ResultLogger
  results,               \* self._results
  classifiers_used,      \* self._classifiers_used
  failed_count,          \* self._failed_count
  log_calls,             \* spy: the log_result / log_failure calls, in order
  \* run_analyze
  cli_pc,                \* "start" | "loop" | "analyzing" | "save" | "done"
  audio_files,           \* discover_audio_files(...)
  cli_i,                 \* files the for loop has finished
  exit_code,             \* the command's return value, -1 while running
  saved_file,            \* what save() wrote, NoFile before
  \* analyze_batch
  batch_pc,              \* "off" | "progress" | "call" | "analyzing" | "done"
  audio_paths,           \* its argument
  on_progress,           \* whether a callback was passed
  batch_i,               \* enumerate's i: paths the for loop has finished
  batch_results,         \* results
  progress_calls,        \* spy: the arguments of the on_progress calls, in order
  batch_errors,          \* the paths of the "Failed to analyze" log lines, in order
  batch_trace,           \* spy: callback calls, starts and ends of analyze_audio
  \* discover_classifiers
  heads_dir,             \* the classification-heads directory on disk
  disc_pc,               \* "off" | "start" | "loop" | "done"
  disc_todo,             \* entries the for loop has still to visit
  disc_classifiers,      \* classifiers
  disc_outcome           \* "none" | "returned" | "raised"

pipeline_vars ==
  <<classifier_configs, embedding_extractors, classifiers, embeddings_cache,
    aa_pc, audio_path, aa_index, result, aa_outcome,
    extract_calls, extract_raised, run_log, loads>>

logger_vars == <<results, classifiers_used, failed_count, log_calls>>

cli_vars == <<cli_pc, audio_files, cli_i, exit_code, saved_file>>

batch_vars ==
  <<batch_pc, audio_paths, on_progress, batch_i, batch_results, progress_calls,
    batch_errors, batch_trace>>

disc_vars == <<heads_dir, disc_pc, disc_todo, disc_classifiers, disc_outcome>>

VARIABLES
  \* one ResultLogger.save call and the file system under it
  save_pc,               \* "idle" | "open" | "dump" | "close" | "crashed"
  session_results,       \* save's local: the snapshot it serializes
  dump_left,             \* the chunks json.dump has still to write
  output_file,           \* the file at output_path: whether it exists and its text
  \* spies on the logger's readers
  snapshots,             \* what the last two get_session_results calls returned, and when
  save_at,               \* the counters and the file as they were when save was called
  save_count             \* save calls begun

save_vars ==
  <<save_pc, session_results, dump_left, output_file, snapshots, save_at, save_count>>

VARIABLES
  \* one application of the phrase engine's functions
  fn_pc,                 \* "off" | "input" | "done"
  fn_in,                 \* the arguments
  fn_out,                \* what the functions returned or raised
  \* postprocess_results
  pp_pc,                 \* "off" | "start" | "loop" | "models" | "save" | "done"
  pp_env,                \* the audio files on disk, their tempo, the embedding descriptors
  pp_data,               \* data: the loaded document, updated in place
  pp_i,                  \* results the for loop has finished
  pp_m,                  \* models of the current result the inner loop has finished
  pp_local,              \* postprocess_audio_result's bpm, phrase_duration and summary
  pp_summary,            \* session_summary
  pp_written,            \* the document written to output_path
  pp_input,              \* the document on disk when the run starts
  pp_outcomes            \* spy: per finished result, "ok" or "failed" as counted

fn_vars == <<fn_pc, fn_in, fn_out>>

post_vars ==
  <<pp_pc, pp_env, pp_data, pp_i, pp_m, pp_local, pp_summary, pp_written, pp_input,
    pp_outcomes>>

NoResult == [audio_path |-> "", audio_duration_seconds |-> 0, sample_rate |-> 0,
             predictions |-> <<>>]

NoFile == [written |-> FALSE]

EmbNames == {c.embedding_model.name : c \in ClassifierCatalogue}

\* ------------------------------------------------------- InferencePipeline

\* InferencePipeline.__init__
PipelineInit(configs) ==
  /\ classifier_configs = configs
  /\ embedding_extractors = <<>>
  /\ classifiers = <<>>
  /\ embeddings_cache = <<>>
  /\ aa_pc = "idle"
  /\ audio_path = ""
  /\ aa_index = 0
  /\ result = NoResult
  /\ aa_outcome = "none"
  /\ extract_calls = [n \in EmbNames |-> 0]
  /\ extract_raised = FALSE
  /\ run_log = <<>>
  /\ loads = <<>>

\* EmbeddingExtractor(config), Classifier(config): a new object, told from the
\* handle the cache held under the key before (if any) by its generation
NewHandle(config, cache, key) ==
  [config |-> config,
   generation |-> IF key \in DOMAIN cache THEN cache[key].generation + 1 ELSE 1]

AlwaysConstruct(config) ==
  (config.name :> NewHandle(config, embedding_extractors, config.name))
    @@ embedding_extractors

\* _get_embedding_extractor: the handle cache after the call
get_embedding_extractor(config) ==
  IF config.name \notin DOMAIN embedding_extractors
    THEN (config.name :> NewHandle(config, embedding_extractors, config.name))
           @@ embedding_extractors
    ELSE embedding_extractors

\* _get_classifier: the handle cache after the call
get_classifier(config) ==
  IF config.model_path \notin DOMAIN classifiers
    THEN (config.model_path :> NewHandle(config, classifiers, config.model_path))
           @@ classifiers
    ELSE classifiers

\* _get_embeddings, line 187
cache_key(path, embedding_config) == <<path, embedding_config.name>>

AlwaysMiss(key) == FALSE

StoreAlways(key, outcome, embeddings) == (key :> embeddings) @@ embeddings_cache

\* _get_embeddings, line 191: the assignment happens when extract returns
StoreEmbeddings(key, outcome, embeddings) ==
  IF outcome = "ok" THEN (key :> embeddings) @@ embeddings_cache ELSE embeddings_cache

LastRate(configs) == configs[Len(configs)].embedding_model.sample_rate

\* analyze_audio, lines 216-217: the first classifier's embedding model's rate
LoadRate(configs) == configs[1].embedding_model.sample_rate

\* _get_embeddings, line 189: "cache_key not in self._embeddings_cache" is false
CacheHit(key) == key \in DOMAIN embeddings_cache

\* what a model call (_load_model, then the graph) can do: return or raise
CallOutcomes == {"ok", "error"}

\* _load_model, lines 77-79 and 119-121: an unregistered algorithm always raises
CanEnd(handle, outcome) ==
  handle.config.algorithm \notin ALGORITHM_MAP => outcome = "error"

\* EmbeddingExtractor.extract: the array a handle computes from the loaded signal
Embeddings(handle, path) ==
  [algorithm |-> handle.config.algorithm, model |-> handle.config.name,
   audio |-> path, num_segments |-> NumSegments(path)]

\* _run_classifier, lines 272-292: the PredictionResult built from the predictions
PredictionResult(config, embeddings) ==
  LET width == OutputWidth(config.model_path)
      segment_predictions ==
        [i \in 1..embeddings.num_segments |-> [j \in 1..width |-> 0]]
      zipped == 1..Min(Len(config.classes), width)
  IN [classifier_name |-> config.name,
      classifier_version |-> config.version,
      classifier_path |-> config.model_path,
      embedding_model_name |-> config.embedding_model.name,
      embedding_model_path |-> config.embedding_model.model_path,
      classes |-> config.classes,
      segment_predictions |-> segment_predictions,
      aggregated_predictions |-> [c \in {config.classes[i] : i \in zipped} |-> 0],
      num_segments |-> Len(segment_predictions)]

ClearNothing == UNCHANGED embeddings_cache

\* clear_cache
clear_cache == embeddings_cache' = <<>>

DropPredictions(r) == [r EXCEPT !.predictions = <<>>]

\* analyze_audio, lines 236-240: the except branch logs and keeps the record
analyze_audio_except(r) == r

\* analyze_audio, lines 209-227: the call up to the for loop
analyze_audio_begin(path) ==
  /\ aa_pc = "idle"
  /\ aa_outcome = "none"
  /\ audio_path' = path
  /\ extract_calls' = [n \in EmbNames |-> 0]
  /\ extract_raised' = FALSE
  /\ run_log' = <<>>
  /\ aa_index' = 0
  /\ \E load_ok \in BOOLEAN :
       IF classifier_configs = <<>> \/ ~load_ok
         THEN \* ValueError("No classifiers configured"), or load_audio raises
              /\ aa_pc' = "idle"
              /\ aa_outcome' = "raised"
              /\ result' = NoResult
              /\ loads' = <<>>
         ELSE /\ aa_pc' = "classifiers"
              /\ aa_outcome' = "none"
              /\ loads' = <<[path |-> path, sample_rate |-> LoadRate(classifier_configs)]>>
              /\ result' = [audio_path |-> path,
                            audio_duration_seconds |-> AudioDuration(path),
                            sample_rate |-> LoadRate(classifier_configs),
                            predictions |-> <<>>]
  /\ UNCHANGED <<classifier_configs, embedding_extractors, classifiers, embeddings_cache>>

\* analyze_audio, lines 230-240: one iteration of the for loop, _run_classifier
\* and the try/except around it
RunClassifier ==
  /\ aa_pc = "classifiers"
  /\ aa_index < Len(classifier_configs)
  /\ LET config == classifier_configs[aa_index + 1]
         emb == config.embedding_model
         key == cache_key(audio_path, emb)
         hit == CacheHit(key)
         extractors1 == IF hit THEN embedding_extractors ELSE get_embedding_extractor(emb)
     IN \E ext \in CallOutcomes, pred \in CallOutcomes :
          /\ hit => ext = "ok"
          /\ ~hit => CanEnd(extractors1[emb.name], ext)
          /\ ext # "ok" => pred = "ok"
          /\ LET extractor == extractors1[emb.name]
                 cache1 == IF ~hit
                             THEN StoreEmbeddings(key, ext, Embeddings(extractor, audio_path))
                             ELSE embeddings_cache
                 classifiers1 == IF ext = "ok" THEN get_classifier(config) ELSE classifiers
             IN /\ ext = "ok" => CanEnd(classifiers1[config.model_path], pred)
                /\ embedding_extractors' = extractors1
                /\ embeddings_cache' = cache1
                /\ classifiers' = classifiers1
                /\ extract_calls' =
                     IF hit THEN extract_calls
                     ELSE [extract_calls EXCEPT ![emb.name] = @ + 1]
                /\ extract_raised' = (extract_raised \/ ext # "ok")
                /\ result' =
                     IF ext = "ok" /\ pred = "ok"
                       THEN [result EXCEPT
                               !.predictions = Append(@, PredictionResult(config, cache1[key]))]
                       ELSE analyze_audio_except(result)
                /\ run_log' = Append(run_log, [classifier |-> config.name,
                                               ok |-> ext = "ok" /\ pred = "ok",
                                               extract |-> IF hit THEN "hit" ELSE ext,
                                               extractor |-> IF hit THEN None ELSE Some(extractor),
                                               embeddings |-> IF key \in DOMAIN cache1
                                                                THEN Some(cache1[key])
                                                                ELSE None,
                                               audio |-> loads[Len(loads)]])
  /\ aa_index' = aa_index + 1
  /\ UNCHANGED <<classifier_configs, aa_pc, audio_path, aa_outcome, loads>>

\* analyze_audio, lines 242-245: after the loop
analyze_audio_end ==
  /\ aa_pc = "classifiers"
  /\ aa_index = Len(classifier_configs)
  /\ clear_cache
  /\ aa_pc' = "idle"
  /\ aa_outcome' = "returned"
  /\ UNCHANGED <<classifier_configs, embedding_extractors, classifiers, audio_path,
                 aa_index, result, extract_calls, extract_raised, run_log, loads>>

\* the caller takes the return value or the exception
TakeOutcome == aa_outcome' = "none"

\* analyze_batch is not running
BatchOff ==
  /\ batch_pc = "off"
  /\ audio_paths = <<>>
  /\ on_progress = FALSE
  /\ batch_i = 0
  /\ batch_results = <<>>
  /\ progress_calls = <<>>
  /\ batch_errors = <<>>
  /\ batch_trace = <<>>

\* discover_classifiers is not running
DiscoverOff ==
  /\ heads_dir = [exists |-> FALSE, entries |-> <<>>]
  /\ disc_pc = "off"
  /\ disc_todo = <<>>
  /\ disc_classifiers = <<>>
  /\ disc_outcome = "none"


\* no save call is running and nothing was written or read yet
NoSnapshot == [taken |-> FALSE]

SaveOff ==
  /\ save_pc = "idle"
  /\ session_results = NoSnapshot
  /\ dump_left = <<>>
  /\ output_file = [exists |-> FALSE, text |-> <<>>]
  /\ snapshots = <<>>
  /\ save_at = NoSnapshot
  /\ save_count = 0

\* no function of the phrase engine is being applied
FnOff ==
  /\ fn_pc = "off"
  /\ fn_in = <<>>
  /\ fn_out = <<>>

\* postprocess_results is not running
PostOff ==
  /\ pp_pc = "off"
  /\ pp_env = <<>>
  /\ pp_data = <<>>
  /\ pp_i = 0
  /\ pp_m = 0
  /\ pp_local = <<>>
  /\ pp_summary = <<>>
  /\ pp_written = <<>>
  /\ pp_input = <<>>
  /\ pp_outcomes = <<>>

\* ------------------------------------------------------------ ResultLogger

\* ResultLogger.__init__
LoggerInit ==
  /\ results = <<>>
  /\ classifiers_used = {}
  /\ failed_count = 0
  /\ log_calls = <<>>

\* position of a classifier name in Python's string order
NameRank(name) == Rank(NameOrder, name)

RECURSIVE Descending(_)
Descending(names) ==
  IF names = {} THEN <<>>
  ELSE LET most == CHOOSE n \in names : \A m \in names : NameRank(m) <= NameRank(n)
       IN <<most>> \o Descending(names \ {most})

\* sorted(names): the names as a list in increasing order
RECURSIVE sorted(_)
sorted(names) ==
  IF names = {} THEN <<>>
  ELSE LET least == CHOOSE n \in names : \A m \in names : NameRank(n) <= NameRank(m)
       IN <<least>> \o sorted(names \ {least})

\* round(x, 3) of a duration held in units of 1/10000 s; the result keeps the unit.
\* No float is exactly halfway between two thousandths, so no tie arises.
Round3(x) == ((x + 5) \div 10) * 10

PrependResult(r) == <<r>> \o results

ForgetResult(r) == results

\* log_result, line 59
AppendResult(r) == Append(results, r)

\* log_result
log_result(r) ==
  /\ results' = AppendResult(r)
  /\ classifiers_used' =
       classifiers_used \cup {r.predictions[i].classifier_name : i \in DOMAIN r.predictions}
  /\ log_calls' = Append(log_calls, [op |-> "log_result", arg |-> r])
  /\ UNCHANGED failed_count

CountTwice == failed_count + 2

\* log_failure, line 74
IncrementFailed == failed_count + 1

\* log_failure
log_failure(path, error) ==
  /\ failed_count' = IncrementFailed
  /\ log_calls' = Append(log_calls, [op |-> "log_failure", arg |-> path])
  /\ UNCHANGED <<results, classifiers_used>>

\* _format_result
format_result(r) ==
  [audio_file |-> r.audio_path,
   audio_duration_seconds |-> Round3(r.audio_duration_seconds),
   sample_rate |-> r.sample_rate,
   models |-> [i \in DOMAIN r.predictions |->
                 LET pred == r.predictions[i]
                 IN [model_name |-> pred.classifier_name,
                     model_version |-> pred.classifier_version,
                     model_path |-> pred.classifier_path,
                     embedding_model |-> pred.embedding_model_name,
                     embedding_model_path |-> pred.embedding_model_path,
                     classes |-> pred.classes,
                     num_segments |-> pred.num_segments,
                     segment_predictions |-> pred.segment_predictions,
                     aggregated_predictions |-> pred.aggregated_predictions]]]

SuccessesOnly ==
  [total_files |-> Len(results),
   successful_files |-> Len(results),
   failed_files |-> 0,
   classifiers_used |-> sorted(classifiers_used),
   results |-> [i \in DOMAIN results |-> format_result(results[i])]]

\* get_session_results: the SessionResults built from the logger's fields
get_session_results ==
  [total_files |-> Len(results) + failed_count,
   successful_files |-> Len(results),
   failed_files |-> failed_count,
   classifiers_used |-> sorted(classifiers_used),
   results |-> [i \in DOMAIN results |-> format_result(results[i])]]

\* save, lines 136-141: the file holds the snapshot taken by the call
save == saved_file' = [written |-> TRUE, session |-> get_session_results]

DrainResults == <<>>

\* get_session_results, line 113: self._results is iterated, never assigned
ResultsAfterRead == results

\* json.dump(asdict(session_results), f, indent=2): the chunks written to the file, in
\* the order of the dataclass's fields; every chunk carries its value as a list
Dump(session) ==
  <<[key |-> "{", value |-> <<>>],
    [key |-> "total_files", value |-> <<session.total_files>>],
    [key |-> "successful_files", value |-> <<session.successful_files>>],
    [key |-> "failed_files", value |-> <<session.failed_files>>],
    [key |-> "classifiers_used", value |-> session.classifiers_used],
    [key |-> "results", value |-> session.results],
    [key |-> "}", value |-> <<>>]>>

\* the keys of a complete document, in order
DumpKeys ==
  <<"{", "total_files", "successful_files", "failed_files", "classifiers_used",
    "results", "}">>

\* json.load of a file's text: the document, or a JSONDecodeError when the text is
\* not a complete document
Loads(text) ==
  IF [i \in DOMAIN text |-> text[i].key] = DumpKeys
    THEN [valid |-> TRUE,
          total_files |-> text[2].value[1],
          successful_files |-> text[3].value[1],
          failed_files |-> text[4].value[1],
          classifiers_used |-> text[5].value,
          results |-> text[6].value]
    ELSE [valid |-> FALSE]

\* -------------------------------------------------------------- run_analyze

\* run_analyze, lines 226-271: validation, discovery, pipeline and logger creation
RunAnalyzeStart ==
  /\ cli_pc = "start"
  /\ \E exists \in BOOLEAN, is_dir \in BOOLEAN :
       IF ~exists \/ ~is_dir THEN /\ cli_pc' = "done"
                                  /\ exit_code' = 1
       ELSE IF audio_files = <<>> THEN /\ cli_pc' = "done"
                                       /\ exit_code' = 0
       ELSE IF classifier_configs = <<>> THEN /\ cli_pc' = "done"
                                              /\ exit_code' = 1
       ELSE /\ cli_pc' = "loop"
            /\ exit_code' = exit_code
  /\ UNCHANGED <<audio_files, cli_i, saved_file>>
  /\ UNCHANGED pipeline_vars
  /\ UNCHANGED logger_vars
  /\ UNCHANGED <<batch_vars, disc_vars, save_vars, fn_vars, post_vars>>

\* run_analyze, lines 277-281: the loop calls analyze_audio on the next file
RunAnalyzeCall ==
  /\ cli_pc = "loop"
  /\ cli_i < Len(audio_files)
  /\ analyze_audio_begin(audio_files[cli_i + 1])
  /\ cli_pc' = "analyzing"
  /\ UNCHANGED <<audio_files, cli_i, exit_code, saved_file>>
  /\ UNCHANGED logger_vars
  /\ UNCHANGED <<batch_vars, disc_vars, save_vars, fn_vars, post_vars>>

\* run_analyze, lines 281-285: the call has ended; log the result or the failure
RunAnalyzeLog ==
  /\ cli_pc = "analyzing"
  /\ aa_pc = "idle"
  /\ aa_outcome # "none"
  /\ IF aa_outcome = "returned"
       THEN log_result(result)
       ELSE log_failure(audio_path, "error")
  /\ TakeOutcome
  /\ cli_i' = cli_i + 1
  /\ cli_pc' = IF cli_i + 1 = Len(audio_files) THEN "save" ELSE "loop"
  /\ UNCHANGED <<audio_files, exit_code, saved_file>>
  /\ UNCHANGED <<classifier_configs, embedding_extractors, classifiers, embeddings_cache,
                 aa_pc, audio_path, aa_index, result, extract_calls, extract_raised, run_log, loads>>
  /\ UNCHANGED <<batch_vars, disc_vars, save_vars, fn_vars, post_vars>>

\* run_analyze, lines 289-297: save the session, print the summary, return 0
RunAnalyzeSave ==
  /\ cli_pc = "save"
  /\ save
  /\ cli_pc' = "done"
  /\ exit_code' = 0
  /\ UNCHANGED <<audio_files, cli_i>>
  /\ UNCHANGED pipeline_vars
  /\ UNCHANGED logger_vars
  /\ UNCHANGED <<batch_vars, disc_vars, save_vars, fn_vars, post_vars>>

\* analyze_audio's loop and end, run inside the command
CliRunClassifier ==
  RunClassifier /\ UNCHANGED <<logger_vars, cli_vars, batch_vars, disc_vars, save_vars, fn_vars, post_vars>>

CliAnalyzeAudioEnd ==
  analyze_audio_end /\ UNCHANGED <<logger_vars, cli_vars, batch_vars, disc_vars, save_vars, fn_vars, post_vars>>

vars == <<pipeline_vars, logger_vars, cli_vars, batch_vars, disc_vars, save_vars, fn_vars, post_vars>>

\* the analyze command on any discovered classifier list and any list of audio files
Init ==
  /\ \E configs \in SortedLists(CatalogueOrder, MaxClassifiers) : PipelineInit(configs)
  /\ LoggerInit
  /\ cli_pc = "start"
  /\ audio_files \in SortedLists(PathOrder, MaxFiles)
  /\ cli_i = 0
  /\ exit_code = -1
  /\ saved_file = NoFile
  /\ BatchOff
  /\ DiscoverOff
  /\ SaveOff
  /\ FnOff
  /\ PostOff

Next ==
  \/ RunAnalyzeStart
  \/ RunAnalyzeCall
  \/ CliRunClassifier
  \/ CliAnalyzeAudioEnd
  \/ RunAnalyzeLog
  \/ RunAnalyzeSave

Spec == Init /\ [][Next]_vars

\* --------------------------------------------- a free-standing ResultLogger

\* the record analyze_audio returns for a file when exactly these classifiers succeed
AnalysisResult(path, configs) ==
  [audio_path |-> path,
   audio_duration_seconds |-> AudioDuration(path),
   sample_rate |-> 16000,
   predictions |->
     [i \in DOMAIN configs |->
        PredictionResult(configs[i],
                         Embeddings([config |-> configs[i].embedding_model], path))]]

\* records handed to log_result
SampleResults ==
  {AnalysisResult("a.wav", <<>>),
   AnalysisResult("a.wav", <<ClfDanceability, ClfGenre>>),
   AnalysisResult("b.wav", <<ClfMoodHappy>>),
   AnalysisResult("c.wav", <<ClfGenre, ClfVoice>>)}

LoggerLogResult ==
  /\ Len(log_calls) < MaxLogCalls
  /\ \E r \in SampleResults : log_result(r)
  /\ UNCHANGED pipeline_vars
  /\ UNCHANGED cli_vars
  /\ UNCHANGED <<batch_vars, disc_vars, save_vars, fn_vars, post_vars>>

LoggerLogFailure ==
  /\ Len(log_calls) < MaxLogCalls
  /\ \E path \in Paths : log_failure(path, "error")
  /\ UNCHANGED pipeline_vars
  /\ UNCHANGED cli_vars
  /\ UNCHANGED <<batch_vars, disc_vars, save_vars, fn_vars, post_vars>>

InitLogger ==
  /\ PipelineInit(<<>>)
  /\ LoggerInit
  /\ cli_pc = "off"
  /\ audio_files = <<>>
  /\ cli_i = 0
  /\ exit_code = -1
  /\ saved_file = NoFile
  /\ BatchOff
  /\ DiscoverOff
  /\ SaveOff
  /\ FnOff
  /\ PostOff

NextLogger ==
  \/ LoggerLogResult
  \/ LoggerLogFailure

\* any sequence of log_result and log_failure calls on one ResultLogger
SpecLogger == InitLogger /\ [][NextLogger]_vars

\* ------------------------------- a ResultLogger with its readers and its file

\* the logger's owner logs only between save calls: the program has one thread
SessionLogResult == save_pc = "idle" /\ LoggerLogResult

SessionLogFailure == save_pc = "idle" /\ LoggerLogFailure

\* a caller (print_summary, save, a test) calls get_session_results
SessionRead ==
  /\ save_pc = "idle"
  /\ snapshots' =
       LET s == [calls |-> Len(log_calls), value |-> get_session_results]
       IN IF snapshots = <<>> THEN <<s>> ELSE <<snapshots[Len(snapshots)], s>>
  /\ results' = ResultsAfterRead
  /\ UNCHANGED <<classifiers_used, failed_count, log_calls>>
  /\ UNCHANGED <<save_pc, session_results, dump_left, output_file, save_at, save_count>>
  /\ UNCHANGED <<pipeline_vars, cli_vars, batch_vars, disc_vars, fn_vars, post_vars>>

\* save, lines 127-137: the directory, the path, the snapshot
SaveBegin ==
  /\ save_pc = "idle"
  /\ save_count < MaxSaves
  /\ session_results' = get_session_results
  /\ save_at' = [taken |-> TRUE, successful |-> Len(results), failed |-> failed_count,
                 file |-> output_file]
  /\ save_count' = save_count + 1
  /\ save_pc' = "open"
  /\ UNCHANGED <<dump_left, output_file, snapshots>>
  /\ UNCHANGED <<pipeline_vars, logger_vars, cli_vars, batch_vars, disc_vars, fn_vars, post_vars>>

\* save, line 140: open(output_path, "w") creates the file or truncates it
SaveOpen ==
  /\ save_pc = "open"
  /\ output_file' = [exists |-> TRUE, text |-> <<>>]
  /\ dump_left' = Dump(session_results)
  /\ save_pc' = "dump"
  /\ UNCHANGED <<session_results, snapshots, save_at, save_count>>
  /\ UNCHANGED <<pipeline_vars, logger_vars, cli_vars, batch_vars, disc_vars, fn_vars, post_vars>>

\* save, line 141: json.dump writes the next chunk to the open file
SaveDump ==
  /\ save_pc = "dump"
  /\ dump_left # <<>>
  /\ output_file' = [output_file EXCEPT !.text = Append(@, Head(dump_left))]
  /\ dump_left' = Tail(dump_left)
  /\ UNCHANGED <<save_pc, session_results, snapshots, save_at, save_count>>
  /\ UNCHANGED <<pipeline_vars, logger_vars, cli_vars, batch_vars, disc_vars, fn_vars, post_vars>>

\* save, lines 140-144: the with block closes the file and save returns the path
SaveClose ==
  /\ save_pc = "dump"
  /\ dump_left = <<>>
  /\ save_pc' = "idle"
  /\ UNCHANGED <<session_results, dump_left, output_file, snapshots, save_at, save_count>>
  /\ UNCHANGED <<pipeline_vars, logger_vars, cli_vars, batch_vars, disc_vars, fn_vars, post_vars>>

\* the process dies while save is running
SaveCrash ==
  /\ save_pc \in {"open", "dump"}
  /\ save_pc' = "crashed"
  /\ UNCHANGED <<session_results, dump_left, output_file, snapshots, save_at, save_count>>
  /\ UNCHANGED <<pipeline_vars, logger_vars, cli_vars, batch_vars, disc_vars, fn_vars, post_vars>>

NextReaders ==
  \/ SessionLogResult
  \/ SessionLogFailure
  \/ SessionRead

\* one ResultLogger and the callers of get_session_results
SpecReaders == InitLogger /\ [][NextReaders]_vars

NextSession ==
  \/ SessionLogResult
  \/ SessionLogFailure
  \/ SaveBegin
  \/ SaveOpen
  \/ SaveDump
  \/ SaveClose
  \/ SaveCrash

\* one ResultLogger: logging, and saves to the session's one output path
SpecSession == InitLogger /\ [][NextSession]_vars

\* ------------------------------------------------------------ analyze_batch

\* analyze_batch, line 313: the arguments of the callback for enumerate's i
ProgressArgs(i) == <<i + 1, Len(audio_paths), audio_paths[i + 1]>>

StopOnError(raised) == IF raised THEN "done" ELSE "progress"

\* analyze_batch, lines 315-319: the loop goes on, whether the item raised or not
AfterItem(raised) == "progress"

AppendEmptyOnFailure == Append(batch_results, NoResult)

\* analyze_batch, lines 318-319: the except branch leaves the list alone
ResultsAfterFailure == batch_results

\* analyze_batch, lines 311-313: the next iteration starts with the callback
BatchProgress ==
  /\ batch_pc = "progress"
  /\ batch_i < Len(audio_paths)
  /\ IF on_progress
       THEN /\ progress_calls' = Append(progress_calls, ProgressArgs(batch_i))
            /\ batch_trace' = Append(batch_trace,
                                     [ev |-> "progress", index |-> batch_i + 1, ok |-> TRUE])
       ELSE UNCHANGED <<progress_calls, batch_trace>>
  /\ batch_pc' = "call"
  /\ UNCHANGED <<audio_paths, on_progress, batch_i, batch_results, batch_errors>>
  /\ UNCHANGED <<pipeline_vars, logger_vars, cli_vars, disc_vars, save_vars, fn_vars, post_vars>>

\* analyze_batch, line 316: the call of analyze_audio
BatchCall ==
  /\ batch_pc = "call"
  /\ analyze_audio_begin(audio_paths[batch_i + 1])
  /\ batch_trace' = Append(batch_trace, [ev |-> "begin", index |-> batch_i + 1, ok |-> TRUE])
  /\ batch_pc' = "analyzing"
  /\ UNCHANGED <<audio_paths, on_progress, batch_i, batch_results, progress_calls,
                 batch_errors>>
  /\ UNCHANGED <<logger_vars, cli_vars, disc_vars, save_vars, fn_vars, post_vars>>

\* analyze_batch, lines 316-319: the call has ended; keep the record or log the error
BatchCollect ==
  /\ batch_pc = "analyzing"
  /\ aa_pc = "idle"
  /\ aa_outcome # "none"
  /\ batch_results' = IF aa_outcome = "returned"
                        THEN Append(batch_results, result)
                        ELSE ResultsAfterFailure
  /\ batch_errors' = IF aa_outcome = "raised"
                       THEN Append(batch_errors, audio_paths[batch_i + 1])
                       ELSE batch_errors
  /\ batch_trace' = Append(batch_trace, [ev |-> "end", index |-> batch_i + 1,
                                         ok |-> aa_outcome = "returned"])
  /\ TakeOutcome
  /\ batch_i' = batch_i + 1
  /\ batch_pc' = AfterItem(aa_outcome = "raised")
  /\ UNCHANGED <<audio_paths, on_progress, progress_calls>>
  /\ UNCHANGED <<classifier_configs, embedding_extractors, classifiers, embeddings_cache,
                 aa_pc, audio_path, aa_index, result, extract_calls, extract_raised, run_log, loads>>
  /\ UNCHANGED <<logger_vars, cli_vars, disc_vars, save_vars, fn_vars, post_vars>>

\* analyze_batch, line 321: the loop is over
BatchReturn ==
  /\ batch_pc = "progress"
  /\ batch_i = Len(audio_paths)
  /\ batch_pc' = "done"
  /\ UNCHANGED <<audio_paths, on_progress, batch_i, batch_results, progress_calls,
                 batch_errors, batch_trace>>
  /\ UNCHANGED <<pipeline_vars, logger_vars, cli_vars, disc_vars, save_vars, fn_vars, post_vars>>

\* analyze_audio's loop and end, run inside analyze_batch
BatchRunClassifier ==
  /\ batch_pc = "analyzing"
  /\ RunClassifier
  /\ UNCHANGED <<logger_vars, cli_vars, batch_vars, disc_vars, save_vars, fn_vars, post_vars>>

BatchAnalyzeAudioEnd ==
  /\ batch_pc = "analyzing"
  /\ analyze_audio_end
  /\ UNCHANGED <<logger_vars, cli_vars, batch_vars, disc_vars, save_vars, fn_vars, post_vars>>

\* the paths a batch is given
BatchPaths == {"a.wav", "b.wav"}

\* analyze_batch on a pipeline built from any classifier list, for any list of paths,
\* with or without a callback
InitBatch ==
  /\ \E configs \in SortedLists(CatalogueOrder, MaxClassifiers) : PipelineInit(configs)
  /\ LoggerInit
  /\ cli_pc = "off"
  /\ audio_files = <<>>
  /\ cli_i = 0
  /\ exit_code = -1
  /\ saved_file = NoFile
  /\ batch_pc = "progress"
  /\ audio_paths \in SeqsUpTo(BatchPaths, MaxFiles)
  /\ on_progress \in BOOLEAN
  /\ batch_i = 0
  /\ batch_results = <<>>
  /\ progress_calls = <<>>
  /\ batch_errors = <<>>
  /\ batch_trace = <<>>
  /\ DiscoverOff
  /\ SaveOff
  /\ FnOff
  /\ PostOff

NextBatch ==
  \/ BatchProgress
  \/ BatchCall
  \/ BatchRunClassifier
  \/ BatchAnalyzeAudioEnd
  \/ BatchCollect
  \/ BatchReturn

SpecBatch == InitBatch /\ [][NextBatch]_vars

\* ----------------------------------------------------- discover_classifiers

\* _load_embedding_model_config, lines 68-71: the architecture directory of an algorithm
ArchDir(algorithm) ==
  IF algorithm \in {"TensorflowPredictMusiCNN"} THEN "musicnn"
  ELSE IF algorithm \in {"TensorflowPredictEffnetDiscogs"} THEN "discogs-effnet"
  ELSE "none"

\* _load_embedding_model_config on what the feature-extractors directory holds for
\* the model: "config" with the EmbeddingModelConfig, "none", or "raise"
load_embedding_model_config(model_name, algorithm, fx) ==
  IF ArchDir(algorithm) = "none" THEN [status |-> "none"]
  ELSE LET json_path == IF fx.json_flat THEN "flat"
                        ELSE IF fx.json_nested THEN "nested" ELSE "none"
           pb_path == IF json_path = "flat"
                        THEN (IF fx.pb_flat THEN "flat"
                              ELSE IF fx.pb_nested THEN "nested" ELSE "none")
                        ELSE (IF fx.pb_nested THEN "nested"
                              ELSE IF fx.pb_flat THEN "flat" ELSE "none")
       IN IF json_path = "none" THEN [status |-> "none"]
          ELSE IF fx.read = "json_error" THEN [status |-> "none"]
          ELSE IF fx.read = "unicode_error" THEN [status |-> "raise"]
          ELSE IF ~fx.is_object THEN [status |-> "raise"]
          ELSE IF ~fx.has_embeddings_output THEN [status |-> "none"]
          ELSE IF pb_path = "none" THEN [status |-> "none"]
          ELSE [status |-> "config",
                config |-> [name |-> model_name, algorithm |-> algorithm,
                            json_at |-> json_path, pb_at |-> pb_path]]

\* load_classifier_config on one descriptor file and the files around it
load_classifier_config(dir, d) ==
  IF d.read = "json_error" THEN [status |-> "none"]
  ELSE IF d.read = "unicode_error" THEN [status |-> "raise"]
  ELSE IF ~d.is_object THEN [status |-> "raise"]
  ELSE IF ~d.has_input_node THEN [status |-> "none"]
  ELSE IF ~d.has_predictions_output THEN [status |-> "none"]
  ELSE IF ~d.has_embedding_info THEN [status |-> "none"]
  ELSE LET embedding == load_embedding_model_config(d.model_name, d.algorithm, d.fx)
       IN IF embedding.status # "config" THEN [status |-> embedding.status]
          ELSE IF ~d.pb_exists THEN [status |-> "none"]
          ELSE [status |-> "config",
                config |-> [name |-> dir, embedding_model |-> embedding.config]]

\* an embedding model laid out flat: <family>/<name>.json beside <family>/<name>.pb
FxFlat ==
  [json_flat |-> TRUE, json_nested |-> FALSE, read |-> "ok", is_object |-> TRUE,
   has_embeddings_output |-> TRUE, pb_flat |-> TRUE, pb_nested |-> FALSE]

\* a well-formed classifier descriptor
WellFormed ==
  [is_dir |-> TRUE, has_json |-> TRUE, read |-> "ok", is_object |-> TRUE,
   has_input_node |-> TRUE, has_predictions_output |-> TRUE,
   has_embedding_info |-> TRUE, model_name |-> "msd-musicnn-1",
   algorithm |-> "TensorflowPredictMusiCNN", fx |-> FxFlat, pb_exists |-> TRUE]

\* what an entry of the classification-heads directory can be
EntryKinds ==
  {WellFormed,
   [WellFormed EXCEPT !.fx = [FxFlat EXCEPT !.json_flat = FALSE, !.json_nested = TRUE,
                                            !.pb_flat = FALSE, !.pb_nested = TRUE]],
   [WellFormed EXCEPT !.is_dir = FALSE],
   [WellFormed EXCEPT !.has_json = FALSE],
   [WellFormed EXCEPT !.read = "json_error"],
   [WellFormed EXCEPT !.read = "unicode_error"],
   [WellFormed EXCEPT !.is_object = FALSE],
   [WellFormed EXCEPT !.has_input_node = FALSE],
   [WellFormed EXCEPT !.has_predictions_output = FALSE],
   [WellFormed EXCEPT !.has_embedding_info = FALSE],
   [WellFormed EXCEPT !.algorithm = "TensorflowPredictVGGish"],
   [WellFormed EXCEPT !.fx = [FxFlat EXCEPT !.json_flat = FALSE]],
   [WellFormed EXCEPT !.fx = [FxFlat EXCEPT !.pb_flat = FALSE]],
   [WellFormed EXCEPT !.pb_exists = FALSE]}

\* the directory names, in the order sorted() gives them
DirOrder == <<"danceability", "genre", "mood_happy", "voice">>

\* sorted(classification_heads_dir.iterdir())
SortedEntries ==
  CHOOSE s \in SortedLists(DirOrder, Len(DirOrder)) : Range(s) = DOMAIN heads_dir.entries

\* discover_classifiers, lines 233-240: nothing to do, or start the loop
DiscoverStart ==
  /\ disc_pc = "start"
  /\ IF ~heads_dir.exists
       THEN /\ disc_pc' = "done"
            /\ disc_outcome' = "returned"
            /\ disc_todo' = <<>>
       ELSE /\ disc_pc' = "loop"
            /\ disc_outcome' = "none"
            /\ disc_todo' = SortedEntries
  /\ UNCHANGED <<heads_dir, disc_classifiers>>
  /\ UNCHANGED <<pipeline_vars, logger_vars, cli_vars, batch_vars, save_vars, fn_vars, post_vars>>

\* discover_classifiers, lines 240-256: one directory entry
DiscoverEntry ==
  /\ disc_pc = "loop"
  /\ disc_todo # <<>>
  /\ LET dir == Head(disc_todo)
         d == heads_dir.entries[dir]
         loaded == IF d.is_dir /\ d.has_json
                     THEN load_classifier_config(dir, d)
                     ELSE [status |-> "none"]
     IN IF loaded.status = "raise"
          THEN /\ disc_pc' = "done"
               /\ disc_outcome' = "raised"
               /\ disc_todo' = disc_todo
               /\ disc_classifiers' = disc_classifiers
          ELSE /\ disc_pc' = "loop"
               /\ disc_outcome' = "none"
               /\ disc_todo' = Tail(disc_todo)
               /\ disc_classifiers' = IF loaded.status = "config"
                                        THEN Append(disc_classifiers, loaded.config)
                                        ELSE disc_classifiers
  /\ UNCHANGED heads_dir
  /\ UNCHANGED <<pipeline_vars, logger_vars, cli_vars, batch_vars, save_vars, fn_vars, post_vars>>

\* discover_classifiers, lines 258-259
DiscoverReturn ==
  /\ disc_pc = "loop"
  /\ disc_todo = <<>>
  /\ disc_pc' = "done"
  /\ disc_outcome' = "returned"
  /\ UNCHANGED <<heads_dir, disc_todo, disc_classifiers>>
  /\ UNCHANGED <<pipeline_vars, logger_vars, cli_vars, batch_vars, save_vars, fn_vars, post_vars>>

\* the directory trees discovery is run on: at most MaxDirs entries
HeadsDirs ==
  {[exists |-> FALSE, entries |-> <<>>]}
    \cup {[exists |-> TRUE, entries |-> f] :
            f \in UNION {[names -> EntryKinds] :
                           names \in {n \in SUBSET Range(DirOrder) :
                                        Cardinality(n) <= MaxDirs}}}

InitDiscover ==
  /\ PipelineInit(<<>>)
  /\ LoggerInit
  /\ cli_pc = "off"
  /\ audio_files = <<>>
  /\ cli_i = 0
  /\ exit_code = -1
  /\ saved_file = NoFile
  /\ BatchOff
  /\ heads_dir \in HeadsDirs
  /\ disc_pc = "start"
  /\ disc_todo = <<>>
  /\ disc_classifiers = <<>>
  /\ disc_outcome = "none"
  /\ SaveOff
  /\ FnOff
  /\ PostOff

NextDiscover ==
  \/ DiscoverStart
  \/ DiscoverEntry
  \/ DiscoverReturn

\* discover_classifiers on any classification-heads directory
SpecDiscover == InitDiscover /\ [][NextDiscover]_vars

\* ------------------------------------------------- phrase aggregation: numbers

\* Python floats are held as exact fractions [n |-> numerator, d |-> denominator > 0]
\* in lowest terms; on the inputs drawn below the float results round as these do.
RECURSIVE GCD(_, _)
GCD(a, b) == IF b = 0 THEN a ELSE GCD(b, a % b)

Abs(x) == IF x < 0 THEN -x ELSE x

Max(a, b) == IF a >= b THEN a ELSE b

Rat(num, den) ==
  LET g == GCD(Abs(num), Abs(den))
      sign == IF den < 0 THEN -1 ELSE 1
  IN [n |-> sign * (num \div g), d |-> sign * (den \div g)]

Whole(k) == [n |-> k, d |-> 1]

RatAdd(a, b) ==
  LET g == GCD(a.d, b.d)
  IN Rat(a.n * (b.d \div g) + b.n * (a.d \div g), (a.d \div g) * b.d)

RatSub(a, b) == RatAdd(a, [n |-> -b.n, d |-> b.d])

RatMul(a, b) ==
  LET g == GCD(Abs(a.n), b.d)
      h == GCD(Abs(b.n), a.d)
  IN Rat((a.n \div g) * (b.n \div h), (a.d \div h) * (b.d \div g))

\* a / b for b # 0; Python raises ZeroDivisionError for b = 0, which callers test first
RatDiv(a, b) == RatMul(a, Rat(b.d, b.n))

RatLeq(a, b) ==
  LET g == GCD(a.d, b.d)
  IN a.n * (b.d \div g) <= b.n * (a.d \div g)

\* round(x): the nearest integer, a tie going to the even one
round(x) ==
  LET floor == x.n \div x.d
      twice == 2 * (x.n - floor * x.d)
  IN IF twice < x.d THEN floor
     ELSE IF twice > x.d THEN floor + 1
     ELSE IF floor % 2 = 0 THEN floor ELSE floor + 1

\* round(x, 2) and round(x, 3)
round_to(x, scale) == Rat(round(RatMul(x, Whole(scale))), scale)

\* sum(xs) / len(xs) of a non-empty list of fractions: np.mean along axis 0, one class
RECURSIVE RatSum(_)
RatSum(xs) ==
  IF xs = <<>> THEN Whole(0)
  ELSE IF Len(xs) = 1 THEN xs[1]
  ELSE LET half == Len(xs) \div 2
       IN RatAdd(RatSum(SubSeq(xs, 1, half)), RatSum(SubSeq(xs, half + 1, Len(xs))))

Mean(xs) == RatDiv(RatSum(xs), Whole(Len(xs)))

\* ------------------------------------------------------- phrase aggregation

PATCHES_PER_SECOND == 64

NoOverlap == Rat(0, 1)

SEGMENT_OVERLAP == Rat(1, 2)

\* get_embedding_model_segment_duration on the descriptor found next to the model:
\* json is "missing" | "unreadable" | "no_inputs" | "bad_shape" | "shape"
get_embedding_model_segment_duration(descriptor) ==
  IF descriptor.json = "shape"
    THEN Some(Whole(round(Rat(descriptor.patch_size, PATCHES_PER_SECOND))))
    ELSE None

\* calculate_phrase_duration for bpm # 0: 16 * 4 * (60 / bpm)
calculate_phrase_duration(bpm) == RatMul(Whole(16 * 4), RatDiv(Whole(60), bpm))

\* postprocess_audio_result, lines 284-288
segment_duration_of(descriptor, audio_duration, num_segments) ==
  LET published == get_embedding_model_segment_duration(descriptor)
  IN IF published.some THEN published.value
     ELSE RatDiv(audio_duration, Whole(num_segments))

\* postprocess_audio_result, lines 296-299
hop_duration_of(segment_duration) ==
  LET hop == RatMul(segment_duration, RatSub(Whole(1), SEGMENT_OVERLAP))
  IN IF RatLeq(hop, Whole(0)) THEN segment_duration ELSE hop

PhraseOverHop(phrase_duration, segment_duration) ==
  RatDiv(RatSub(phrase_duration, segment_duration), hop_duration_of(segment_duration))

\* postprocess_audio_result, line 306, for a hop duration other than zero
PhraseInSegments(phrase_duration, segment_duration) ==
  RatAdd(RatDiv(RatSub(phrase_duration, segment_duration),
                hop_duration_of(segment_duration)),
         Whole(1))

DriftingSegmentsPerPhrase(phrase_duration, segment_duration) ==
  [raised |-> FALSE, value |-> Whole(pp_m + 1)]

\* postprocess_audio_result, lines 301-306: the value, or raised when line 306
\* divides by a zero hop duration
segments_per_phrase_of(phrase_duration, segment_duration) ==
  IF RatLeq(phrase_duration, segment_duration) THEN [raised |-> FALSE, value |-> Whole(1)]
  ELSE IF hop_duration_of(segment_duration).n = 0 THEN [raised |-> TRUE]
  ELSE [raised |-> FALSE, value |-> PhraseInSegments(phrase_duration, segment_duration)]

\* chunk_predictions, line 181
chunk_size_of(segments_per_phrase) == Max(1, round(segments_per_phrase))

OverlappingStarts(num_segments, chunk_size) ==
  [k \in 1..Max(1, num_segments - chunk_size + 1) |-> k - 1]

\* range(0, num_segments, chunk_size)
Starts(num_segments, chunk_size) ==
  [k \in 1..((num_segments + chunk_size - 1) \div chunk_size) |-> (k - 1) * chunk_size]

\* chunk_predictions
chunk_predictions(predictions, segments_per_phrase) ==
  IF predictions = <<>> THEN <<>>
  ELSE LET num_segments == Len(predictions)
           chunk_size == chunk_size_of(segments_per_phrase)
           starts == Starts(num_segments, chunk_size)
       IN [k \in DOMAIN starts |->
             SubSeq(predictions, starts[k] + 1, Min(starts[k] + chunk_size, num_segments))]

\* np.mean(rows, axis=0) of a non-empty list of equally long rows
ColumnMeans(rows) ==
  [c \in DOMAIN rows[1] |-> Mean([r \in DOMAIN rows |-> rows[r][c]])]

MeanOfAllSegments(chunks, bar_predictions) ==
  LET segments == [c \in DOMAIN chunks |-> Len(chunks[c])]
      Weighted(col) ==
        RatSum([c \in DOMAIN chunks |-> RatMul(bar_predictions[c][col], Whole(segments[c]))])
      total == RatSum([c \in DOMAIN chunks |-> Whole(segments[c])])
  IN [col \in DOMAIN bar_predictions[1] |-> RatDiv(Weighted(col), total)]

\* compute_bar_predictions, lines 219-220
OverallMean(chunks, bar_predictions) == ColumnMeans(bar_predictions)

\* compute_bar_predictions; the dict has a key per class that zip pairs with a mean
compute_bar_predictions(chunks, classes) ==
  IF chunks = <<>> THEN [bar_predictions |-> <<>>, aggregated_bar_predictions |-> <<>>]
  ELSE LET bar_predictions == [c \in DOMAIN chunks |-> ColumnMeans(chunks[c])]
           overall_mean == OverallMean(chunks, bar_predictions)
           paired == 1..Min(Len(classes), Len(overall_mean))
       IN [bar_predictions |-> bar_predictions,
           aggregated_bar_predictions |->
             [name \in {classes[k] : k \in paired} |->
                overall_mean[CHOOSE k \in paired :
                               /\ classes[k] = name
                               /\ \A j \in paired : classes[j] = name => j <= k]]]

\* ------------------------------------- the phrase engine applied to one model

\* estimate_bpm's results: silence (no beat found), and three tempi
BpmValues == {0, 60, 120, 240}

\* audio_duration_seconds of the session file, rounded to thousandths by the logger
AudioDurations ==
  {Whole(0), Rat(12344, 1000), Whole(24), Whole(48), Whole(64), Whole(189)}

\* short matrices, and the 189 segments of a track of a minute and a half
SegmentCounts == (0..MaxSegments) \cup {189}

\* what the JSON file next to an embedding model holds: none, or an input shape
\* whose time dimension is the patch size (MusiCNN 187, EffNet 128, VGGish 96, ...)
PatchSizes == {32, 64, 96, 128, 160, 187}

Descriptors ==
  {[json |-> kind, patch_size |-> 0] :
     kind \in {"missing", "unreadable", "no_inputs", "bad_shape"}}
  \cup {[json |-> "shape", patch_size |-> size] : size \in PatchSizes}

\* segment x class activations of a two-class head, in tenths
SamplePredictions(num_segments) ==
  [i \in 1..num_segments |-> <<Rat((i * 7) % 10, 10), Rat(10 - ((i * 7) % 10), 10)>>]

\* segments_per_phrase values handed to chunk_predictions directly
SppValues ==
  {Rat(2, 5), Whole(1), Rat(3, 2), Whole(2), Rat(5, 2), Whole(3), Rat(7, 2), Whole(63)}

ModelInputs ==
  [fn : {"model"}, bpm : BpmValues, audio_duration : AudioDurations,
   num_segments : SegmentCounts, descriptor : Descriptors,
   classes : {ClfDanceability.classes}]

FunctionInputs ==
  [fn : {"functions"}, num_segments : SegmentCounts, segments_per_phrase : SppValues,
   classes : {ClfDanceability.classes, ClfVoice.classes}]

\* postprocess_audio_result, lines 256-257 and one turn of the loop of lines 273-324,
\* for a model holding num_segments segment predictions
ApplyPhraseModel ==
  /\ fn_pc = "input"
  /\ fn_in.fn = "model"
  /\ fn_pc' = "done"
  /\ fn_out' =
       IF fn_in.bpm = 0 THEN [outcome |-> "raised"]
       ELSE IF fn_in.num_segments = 0 THEN [outcome |-> "skipped"]
       ELSE
         LET phrase_duration == calculate_phrase_duration(Whole(fn_in.bpm))
             segment_predictions == SamplePredictions(fn_in.num_segments)
             segment_duration ==
               segment_duration_of(fn_in.descriptor, fn_in.audio_duration,
                                   fn_in.num_segments)
             segments_per_phrase ==
               segments_per_phrase_of(phrase_duration, segment_duration)
         IN IF segments_per_phrase.raised THEN [outcome |-> "raised"]
            ELSE
              LET chunks == chunk_predictions(segment_predictions,
                                              segments_per_phrase.value)
                  bars == compute_bar_predictions(chunks, fn_in.classes)
              IN [outcome |-> "ok",
                  phrase_duration |-> phrase_duration,
                  segment_duration |-> segment_duration,
                  hop_duration |-> hop_duration_of(segment_duration),
                  segments_per_phrase |-> segments_per_phrase.value,
                  chunk_size |-> chunk_size_of(segments_per_phrase.value),
                  predictions |-> segment_predictions,
                  chunks |-> chunks,
                  bar_predictions |-> bars.bar_predictions,
                  aggregated_bar_predictions |-> bars.aggregated_bar_predictions]
  /\ UNCHANGED fn_in
  /\ UNCHANGED <<pipeline_vars, logger_vars, cli_vars, batch_vars, disc_vars, save_vars,
                 post_vars>>

\* chunk_predictions and compute_bar_predictions called on their own
ApplyFunctions ==
  /\ fn_pc = "input"
  /\ fn_in.fn = "functions"
  /\ fn_pc' = "done"
  /\ fn_out' =
       LET predictions == SamplePredictions(fn_in.num_segments)
           chunks == chunk_predictions(predictions, fn_in.segments_per_phrase)
           bars == compute_bar_predictions(chunks, fn_in.classes)
       IN [outcome |-> "ok",
           segments_per_phrase |-> fn_in.segments_per_phrase,
           chunk_size |-> chunk_size_of(fn_in.segments_per_phrase),
           predictions |-> predictions,
           chunks |-> chunks,
           bar_predictions |-> bars.bar_predictions,
           aggregated_bar_predictions |-> bars.aggregated_bar_predictions]
  /\ UNCHANGED fn_in
  /\ UNCHANGED <<pipeline_vars, logger_vars, cli_vars, batch_vars, disc_vars, save_vars,
                 post_vars>>

\* how one embedding model can lie under the feature-extractors directory: which of
\* <dir>/<name>.json, <dir>/<family>/<name>.json, <dir>/<family>/<name>/<name>.json
\* and of <dir>/<family>/<name>.pb, <dir>/<family>/<name>/<name>.pb exist
Layouts ==
  [json_above : BOOLEAN, json_flat : BOOLEAN, json_nested : BOOLEAN,
   pb_flat : BOOLEAN, pb_nested : BOOLEAN,
   read : {"ok"}, is_object : {TRUE}, has_embeddings_output : {TRUE}]

LayoutInputs == [fn : {"layout"}, fx : Layouts]

\* get_embedding_model_segment_duration, lines 69-72: the file it looks for, given
\* where the artifact lies: model_path.parent.parent / "<stem>.json"
json_path_of(pb_at) == IF pb_at = "nested" THEN "flat" ELSE "above"

\* get_embedding_model_segment_duration, lines 74-96: what is read at json_path;
\* every descriptor of the model publishes MusiCNN's input shape [187, 96]
DescriptorAt(fx, json_path) ==
  IF \/ json_path = "above" /\ fx.json_above
     \/ json_path = "flat" /\ fx.json_flat
     \/ json_path = "nested" /\ fx.json_nested
    THEN [json |-> "shape", patch_size |-> 187]
    ELSE [json |-> "missing", patch_size |-> 0]

\* _load_embedding_model_config on a layout, then
\* get_embedding_model_segment_duration on the artifact path it recorded
ApplyLayout ==
  /\ fn_pc = "input"
  /\ fn_in.fn = "layout"
  /\ fn_pc' = "done"
  /\ fn_out' =
       LET resolved == load_embedding_model_config(EmbMusicnn.name, EmbMusicnn.algorithm,
                                                   fn_in.fx)
       IN IF resolved.status # "config" THEN [outcome |-> "unresolved"]
          ELSE LET json_path == json_path_of(resolved.config.pb_at)
                   descriptor == DescriptorAt(fn_in.fx, json_path)
               IN [outcome |-> "resolved",
                   config |-> resolved.config,
                   json_path |-> json_path,
                   published |-> get_embedding_model_segment_duration(descriptor)]
  /\ UNCHANGED fn_in
  /\ UNCHANGED <<pipeline_vars, logger_vars, cli_vars, batch_vars, disc_vars, save_vars,
                 post_vars>>

InitPhrase ==
  /\ PipelineInit(<<>>)
  /\ LoggerInit
  /\ cli_pc = "off"
  /\ audio_files = <<>>
  /\ cli_i = 0
  /\ exit_code = -1
  /\ saved_file = NoFile
  /\ BatchOff
  /\ DiscoverOff
  /\ SaveOff
  /\ PostOff
  /\ fn_pc = "input"
  /\ fn_in \in ModelInputs \cup FunctionInputs \cup LayoutInputs
  /\ fn_out = <<>>

NextPhrase ==
  \/ ApplyPhraseModel
  \/ ApplyFunctions
  \/ ApplyLayout

\* the phrase engine's functions applied once to any input of the sets above
SpecPhrase == InitPhrase /\ [][NextPhrase]_vars

\* ------------------------------------------------------ postprocess_results

\* one entry of "models" as _format_result writes it, with rows segment predictions
ModelEntry(config, num_segments, rows) ==
  [model_name |-> config.name,
   model_version |-> config.version,
   model_path |-> config.model_path,
   embedding_model |-> config.embedding_model.name,
   embedding_model_path |-> config.embedding_model.model_path,
   classes |-> config.classes,
   num_segments |-> num_segments,
   segment_predictions |-> SamplePredictions(rows),
   aggregated_predictions |-> [c \in Range(config.classes) |-> Rat(1, 2)]]

\* one entry of "results" as _format_result writes it
SessionItem(path, duration, models) ==
  [audio_file |-> path,
   audio_duration_seconds |-> duration,
   sample_rate |-> 16000,
   models |-> models]

\* results of a saved session: a model without segments before one with segments,
\* the latter alone, two models on different embedding models, and a model whose
\* count is set but whose rows are missing before one without class labels
SampleItems ==
  {SessionItem("a.wav", Whole(48),
               <<ModelEntry(ClfDanceability, 0, 0), ModelEntry(ClfGenre, 3, 3)>>),
   SessionItem("b.wav", Whole(48), <<ModelEntry(ClfGenre, 3, 3)>>),
   SessionItem("a.wav", Whole(24),
               <<ModelEntry(ClfGenre, 3, 3), ModelEntry(ClfDanceability, 2, 2)>>),
   SessionItem("b.wav", Whole(48),
               <<ModelEntry(ClfMoodHappy, 2, 0), ModelEntry(ClfVoice, 5, 5)>>)}

\* the session file: the SessionResults fields and the results
SessionFile(items) ==
  [total_files |-> Len(items),
   successful_files |-> Len(items),
   failed_files |-> 0,
   classifiers_used |->
     sorted(UNION {{items[i].models[j].model_name : j \in DOMAIN items[i].models} :
                     i \in DOMAIN items}),
   results |-> items]

PostPaths == {"a.wav", "b.wav"}

EmbeddingPaths == {EmbMusicnn.model_path, EmbEffnet.model_path, EmbEffnetSameName.model_path}

\* the disk under a run: for each audio file whether it is there and the tempo
\* estimate_bpm finds (0 for silence); for each embedding model what its JSON holds
Environments ==
  [audio : [PostPaths -> [exists : BOOLEAN, bpm : {120}] \cup
                          [exists : {TRUE}, bpm : {0, 240}]],
   descriptor :
     {[path \in EmbeddingPaths |->
         IF path = EmbMusicnn.model_path THEN musicnn ELSE effnet] :
        musicnn \in {[json |-> "missing", patch_size |-> 0],
                     [json |-> "shape", patch_size |-> 32]},
        effnet \in {[json |-> "missing", patch_size |-> 0],
                    [json |-> "shape", patch_size |-> 64]}}]

\* postprocess_results, lines 370-389: load the file, count, start the summary
PostStart ==
  /\ pp_pc = "start"
  /\ pp_data' = pp_input
  /\ pp_summary' = [total_files |-> Len(pp_input.results), successful_files |-> 0,
                    failed_files |-> 0, results |-> <<>>]
  /\ pp_pc' = "loop"
  /\ UNCHANGED <<pp_env, pp_i, pp_m, pp_local, pp_written, pp_input, pp_outcomes>>
  /\ UNCHANGED <<pipeline_vars, logger_vars, cli_vars, batch_vars, disc_vars, save_vars,
                 fn_vars>>

AbortOnFailure ==
  /\ pp_summary' = [pp_summary EXCEPT !.failed_files = @ + 1]
  /\ pp_outcomes' = Append(pp_outcomes, "failed")
  /\ pp_i' = Len(pp_data.results)
  /\ pp_m' = 0
  /\ pp_local' = <<>>
  /\ pp_pc' = "loop"

\* the except branch and the else branch of lines 400-404: one more failed file
FailItem ==
  /\ pp_summary' = [pp_summary EXCEPT !.failed_files = @ + 1]
  /\ pp_outcomes' = Append(pp_outcomes, "failed")
  /\ pp_i' = pp_i + 1
  /\ pp_m' = 0
  /\ pp_local' = <<>>
  /\ pp_pc' = "loop"

AlwaysLocated(file) == TRUE

\* postprocess_audio_result, line 251: audio_path.exists()
Located(file) == file.exists

\* postprocess_results, lines 391-396, and postprocess_audio_result, lines 244-270:
\* the next result; a missing audio file returns (result, None), a tempo of zero
\* raises in calculate_phrase_duration; otherwise bpm and phrase duration are set
PostItemBegin ==
  /\ pp_pc = "loop"
  /\ pp_i < Len(pp_data.results)
  /\ LET item == pp_data.results[pp_i + 1]
         file == pp_env.audio[item.audio_file]
     IN IF ~Located(file) \/ file.bpm = 0
          THEN FailItem /\ UNCHANGED pp_data
          ELSE LET bpm == Whole(file.bpm)
                   phrase_duration == calculate_phrase_duration(bpm)
                   rounded == [bpm |-> round_to(bpm, 100),
                               phrase_duration_seconds |-> round_to(phrase_duration, 1000)]
               IN /\ pp_data' = [pp_data EXCEPT !.results[pp_i + 1] = rounded @@ item]
                  /\ pp_local' =
                       [bpm |-> bpm, phrase_duration |-> phrase_duration,
                        summary |-> [audio_file |-> item.audio_file,
                                     audio_duration_seconds |-> item.audio_duration_seconds,
                                     bpm |-> rounded.bpm,
                                     phrase_duration_seconds |-> rounded.phrase_duration_seconds,
                                     models |-> <<>>]]
                  /\ pp_m' = 0
                  /\ pp_pc' = "models"
                  /\ UNCHANGED <<pp_i, pp_summary, pp_outcomes>>
  /\ UNCHANGED <<pp_env, pp_written, pp_input>>
  /\ UNCHANGED <<pipeline_vars, logger_vars, cli_vars, batch_vars, disc_vars, save_vars,
                 fn_vars>>

EmptyBarFields(model) ==
  [bar_predictions |-> <<>>, aggregated_bar_predictions |-> <<>>] @@ model

\* postprocess_audio_result, lines 280-281: continue leaves the model as it is
SkippedModel(model) == model

OverwritingBarFields(model, segment_duration, segments_per_phrase) ==
  LET chunks == chunk_predictions(model.segment_predictions, segments_per_phrase)
      bars == compute_bar_predictions(chunks, model.classes)
  IN [model |-> [aggregated_predictions |-> bars.aggregated_bar_predictions]
                  @@ bars @@ model,
      info |-> [model_name |-> model.model_name,
                embedding_model |-> model.embedding_model,
                segment_duration_seconds |-> round_to(segment_duration, 1000),
                num_segments |-> model.num_segments,
                segments_per_phrase |-> round_to(segments_per_phrase, 100),
                num_phrases |-> Max(1, Len(bars.bar_predictions))]]

\* postprocess_audio_result, lines 322-349: the two fields set on the model, the
\* ModelPostprocessInfo appended to the summary
WithBarFields(model, segment_duration, segments_per_phrase) ==
  LET chunks == chunk_predictions(model.segment_predictions, segments_per_phrase)
      bars == compute_bar_predictions(chunks, model.classes)
  IN [model |-> bars @@ model,
      info |-> [model_name |-> model.model_name,
                embedding_model |-> model.embedding_model,
                segment_duration_seconds |-> round_to(segment_duration, 1000),
                num_segments |-> model.num_segments,
                segments_per_phrase |-> round_to(segments_per_phrase, 100),
                num_phrases |-> Max(1, Len(bars.bar_predictions))]]

\* postprocess_audio_result, lines 273-349: one turn of the loop over the models
PostModel ==
  /\ pp_pc = "models"
  /\ pp_m < Len(pp_data.results[pp_i + 1].models)
  /\ LET item == pp_data.results[pp_i + 1]
         model == item.models[pp_m + 1]
         skipped == model.num_segments = 0 \/ model.segment_predictions = <<>>
         segment_duration ==
           segment_duration_of(pp_env.descriptor[model.embedding_model_path],
                               item.audio_duration_seconds, model.num_segments)
         segments_per_phrase ==
           segments_per_phrase_of(pp_local.phrase_duration, segment_duration)
     IN IF skipped
          THEN /\ pp_data' =
                    [pp_data EXCEPT !.results[pp_i + 1].models[pp_m + 1] = SkippedModel(model)]
               /\ pp_m' = pp_m + 1
               /\ UNCHANGED <<pp_i, pp_local, pp_summary, pp_pc, pp_outcomes>>
          ELSE IF segments_per_phrase.raised
          THEN FailItem /\ UNCHANGED pp_data
          ELSE LET done == WithBarFields(model, segment_duration,
                                         segments_per_phrase.value)
               IN /\ pp_data' =
                       [pp_data EXCEPT !.results[pp_i + 1].models[pp_m + 1] = done.model]
                  /\ pp_local' = [pp_local EXCEPT !.summary.models = Append(@, done.info)]
                  /\ pp_m' = pp_m + 1
                  /\ UNCHANGED <<pp_i, pp_summary, pp_pc, pp_outcomes>>
  /\ UNCHANGED <<pp_env, pp_written, pp_input>>
  /\ UNCHANGED <<pipeline_vars, logger_vars, cli_vars, batch_vars, disc_vars, save_vars,
                 fn_vars>>

\* postprocess_audio_result, line 351, and postprocess_results, lines 397-399
PostItemEnd ==
  /\ pp_pc = "models"
  /\ pp_m = Len(pp_data.results[pp_i + 1].models)
  /\ pp_summary' = [pp_summary EXCEPT !.results = Append(@, pp_local.summary),
                                      !.successful_files = @ + 1]
  /\ pp_outcomes' = Append(pp_outcomes, "ok")
  /\ pp_i' = pp_i + 1
  /\ pp_m' = 0
  /\ pp_local' = <<>>
  /\ pp_pc' = "loop"
  /\ UNCHANGED <<pp_env, pp_data, pp_written, pp_input>>
  /\ UNCHANGED <<pipeline_vars, logger_vars, cli_vars, batch_vars, disc_vars, save_vars,
                 fn_vars>>

\* postprocess_results, lines 406-415: write the document, return the summary
PostSave ==
  /\ pp_pc = "loop"
  /\ pp_i = Len(pp_data.results)
  /\ pp_written' = pp_data
  /\ pp_pc' = "done"
  /\ UNCHANGED <<pp_env, pp_data, pp_i, pp_m, pp_local, pp_summary, pp_input, pp_outcomes>>
  /\ UNCHANGED <<pipeline_vars, logger_vars, cli_vars, batch_vars, disc_vars, save_vars,
                 fn_vars>>

InitPost ==
  /\ PipelineInit(<<>>)
  /\ LoggerInit
  /\ cli_pc = "off"
  /\ audio_files = <<>>
  /\ cli_i = 0
  /\ exit_code = -1
  /\ saved_file = NoFile
  /\ BatchOff
  /\ DiscoverOff
  /\ SaveOff
  /\ FnOff
  /\ pp_pc = "start"
  /\ pp_env \in Environments
  /\ pp_input \in {SessionFile(items) : items \in SeqsUpTo(SampleItems, MaxItems)}
  /\ pp_data = <<>>
  /\ pp_i = 0
  /\ pp_m = 0
  /\ pp_local = <<>>
  /\ pp_summary = <<>>
  /\ pp_written = <<>>
  /\ pp_outcomes = <<>>

NextPost ==
  \/ PostStart
  \/ PostItemBegin
  \/ PostModel
  \/ PostItemEnd
  \/ PostSave

\* postprocess_results on any saved session of the sets above, on any such disk
SpecPost == InitPost /\ [][NextPost]_vars

\* ------------------------------------------------------------------ claims

\* the embedding-model names the classifiers handled so far by the loop refer to
NamesReached ==
  {classifier_configs[i].embedding_model.name : i \in 1..aa_index}

\* C1: within one analyze_audio call in which no extraction raised, extract has
\* been called exactly once for every embedding model (cache key: its name) that a
\* classifier handled so far refers to, never for another, and while the call runs
\* the item's cache holds that model's embeddings for the later classifiers.
C1_ExtractOncePerModel ==
  ~extract_raised =>
    \A n \in EmbNames :
      /\ extract_calls[n] = IF n \in NamesReached THEN 1 ELSE 0
      /\ (aa_pc = "classifiers" /\ n \in NamesReached)
           => <<audio_path, n>> \in DOMAIN embeddings_cache

\* two classifiers of the list share an embedding model, both produced a prediction,
\* and the call returned after one extraction for that model
C1_Witness ==
  /\ aa_outcome = "returned"
  /\ ~extract_raised
  /\ \E i, j \in DOMAIN result.predictions :
       /\ i < j
       /\ result.predictions[i].embedding_model_path = result.predictions[j].embedding_model_path
       /\ extract_calls[result.predictions[i].embedding_model_name] = 1

\* C2: the item-scoped cache is empty whenever no analyze_audio call is running,
\* whether the last call returned or raised, and while a call runs every entry is
\* keyed by that call's audio path.
C2_CacheEmptyBetweenItems ==
  /\ aa_pc = "idle" => DOMAIN embeddings_cache = {}
  /\ (aa_pc = "classifiers" /\ aa_index = 0) => DOMAIN embeddings_cache = {}
  /\ \A key \in DOMAIN embeddings_cache : key[1] = audio_path

\* after a call that raised, a second call has returned after extracting
\* embeddings, and the cache is empty
C2_Witness ==
  /\ batch_i >= 1
  /\ batch_errors # <<>>
  /\ aa_pc = "idle"
  /\ aa_outcome = "returned"
  /\ \E n \in EmbNames : extract_calls[n] >= 1
  /\ DOMAIN embeddings_cache = {}

ClassifierNames(preds) == [i \in DOMAIN preds |-> preds[i].classifier_name]

Succeeded(e) == e.ok

\* C3: the record's predictions are those of the loop iterations that succeeded, in
\* list order, and a returned call has run every configured classifier, in order,
\* whichever of them raised.
C3_PartialPredictionsKept ==
  /\ ClassifierNames(result.predictions)
       = [i \in DOMAIN SelectSeq(run_log, Succeeded) |->
            SelectSeq(run_log, Succeeded)[i].classifier]
  /\ aa_outcome = "returned" =>
       /\ Len(run_log) = Len(classifier_configs)
       /\ \A i \in DOMAIN run_log : run_log[i].classifier = classifier_configs[i].name

\* a returned call in which a classifier raised between two that succeeded
C3_Witness ==
  /\ aa_outcome = "returned"
  /\ \E i, j, k \in DOMAIN run_log :
       /\ i < j /\ j < k
       /\ run_log[i].ok /\ ~run_log[j].ok /\ run_log[k].ok
  /\ Len(result.predictions) = 2

\* C4: the record holds at most as many predictions as classifiers are configured,
\* and each prediction has as many class labels as each of its segment vectors is
\* wide and as its aggregated predictions have keys.
C4_LabelsMatchWidth ==
  /\ Len(result.predictions) <= Len(classifier_configs)
  /\ \A i \in DOMAIN result.predictions :
       LET pred == result.predictions[i]
       IN /\ \A k \in DOMAIN pred.segment_predictions :
               Len(pred.segment_predictions[k]) = Len(pred.classes)
          /\ Cardinality(DOMAIN pred.aggregated_predictions) = Len(pred.classes)

\* C5: with a callback, analyze_batch calls it once per path, in list order, with
\* (1-based index, total, path): each call comes after the previous path's analysis
\* has ended (or first) and right before that path's analysis starts, also when the
\* previous analysis raised, so a finished batch has made exactly total calls with
\* indices 1..total.
C5_ProgressBeforeEachItem ==
  on_progress =>
    /\ \A k \in DOMAIN progress_calls :
         progress_calls[k] = <<k, Len(audio_paths), audio_paths[k]>>
    /\ \A j \in DOMAIN batch_trace :
         /\ batch_trace[j].ev = "progress" => (j = 1 \/ batch_trace[j - 1].ev = "end")
         /\ batch_trace[j].ev = "begin" =>
              /\ j > 1
              /\ batch_trace[j - 1].ev = "progress"
              /\ batch_trace[j - 1].index = batch_trace[j].index
         /\ batch_trace[j].ev = "end" => (j > 1 /\ batch_trace[j - 1].ev = "begin")
    /\ batch_pc = "done" => Len(progress_calls) = Len(audio_paths)

\* a finished batch of two paths with a callback, the first analysis having raised
C5_Witness ==
  /\ batch_pc = "done"
  /\ on_progress
  /\ Len(progress_calls) = 2
  /\ batch_errors # <<>>
  /\ batch_errors[1] = audio_paths[1]
  /\ Len(batch_results) = 1

BatchEnds == SelectSeq(batch_trace, LAMBDA e : e.ev = "end")

\* C6: analyze_batch keeps the record of every analysis that returned and logs the
\* path of every analysis that raised, both in input order, and goes on: a finished
\* batch has analysed every path, and its list holds exactly the records of the
\* paths that succeeded.
C6_BatchKeepsSuccesses ==
  LET good == SelectSeq(BatchEnds, Succeeded)
      bad == SelectSeq(BatchEnds, LAMBDA e : ~e.ok)
  IN /\ [i \in DOMAIN batch_results |-> batch_results[i].audio_path]
          = [i \in DOMAIN good |-> audio_paths[good[i].index]]
     /\ batch_errors = [i \in DOMAIN bad |-> audio_paths[bad[i].index]]
     /\ batch_pc = "done" =>
          /\ Len(BatchEnds) = Len(audio_paths)
          /\ \A k \in DOMAIN BatchEnds : BatchEnds[k].index = k

\* a finished batch whose first path failed and whose second succeeded
C6_Witness ==
  /\ batch_pc = "done"
  /\ Len(audio_paths) = 2
  /\ batch_errors = <<audio_paths[1]>>
  /\ Len(batch_results) = 1
  /\ batch_results[1].audio_path = audio_paths[2]
  /\ batch_results[1].predictions # <<>>

\* a descriptor that resolves: every required field and file is there
Resolves(d) ==
  /\ d.is_dir /\ d.has_json /\ d.read = "ok" /\ d.is_object
  /\ d.has_input_node /\ d.has_predictions_output /\ d.has_embedding_info
  /\ ArchDir(d.algorithm) # "none"
  /\ d.fx.json_flat \/ d.fx.json_nested
  /\ d.fx.read = "ok" /\ d.fx.is_object /\ d.fx.has_embeddings_output
  /\ d.fx.pb_flat \/ d.fx.pb_nested
  /\ d.pb_exists

\* C8: discover_classifiers returns without raising whatever the entries of an
\* existing directory are, and returns the classifiers of exactly the descriptors that
\* resolve, in sorted directory order.
C8_DiscoveryNeverAborts ==
  (disc_pc = "done" /\ heads_dir.exists) =>
    /\ disc_outcome = "returned"
    /\ [i \in DOMAIN disc_classifiers |-> disc_classifiers[i].name]
         = SelectSeq(SortedEntries, LAMBDA dir : Resolves(heads_dir.entries[dir]))

\* the path a log call is about
LoggedPath(call) == IF call.op = "log_result" THEN call.arg.audio_path ELSE call.arg

\* C7: the analyze command logs every file the loop has finished exactly once, as a
\* result or as a failure, in order; once the loop has started the command ends only
\* after the last file, with the session saved, and the saved counts add up to the
\* number of discovered files.
C7_EveryFileCountedOnce ==
  /\ cli_pc # "off" =>
       /\ Len(log_calls) = cli_i
       /\ \A k \in DOMAIN log_calls : LoggedPath(log_calls[k]) = audio_files[k]
  /\ (cli_pc = "done" /\ cli_i > 0) =>
       /\ cli_i = Len(audio_files)
       /\ saved_file.written
       /\ saved_file.session.total_files = Len(audio_files)
       /\ saved_file.session.successful_files + saved_file.session.failed_files
            = saved_file.session.total_files

\* the command has ended with a saved session that counts a success and a failure
C7_Witness ==
  /\ cli_pc = "done"
  /\ saved_file.written
  /\ saved_file.session.successful_files >= 1
  /\ saved_file.session.failed_files >= 1

LogResultCalls == SelectSeq(log_calls, LAMBDA c : c.op = "log_result")

\* C9: the snapshot's results are the records handed to log_result, formatted, in
\* the order of the calls, and classifiers_used lists exactly the classifier names
\* of their predictions.
C9_InsertionOrderKept ==
  LET logged == [i \in DOMAIN LogResultCalls |-> LogResultCalls[i].arg]
      snapshot == get_session_results
  IN /\ snapshot.results = [i \in DOMAIN logged |-> format_result(logged[i])]
     /\ Range(snapshot.classifiers_used)
          = UNION {Range(ClassifierNames(logged[i].predictions)) : i \in DOMAIN logged}

\* two different records were logged with a failure between them
C9_Witness ==
  /\ Len(log_calls) = 3
  /\ log_calls[1].op = "log_result"
  /\ log_calls[2].op = "log_failure"
  /\ log_calls[3].op = "log_result"
  /\ log_calls[1].arg # log_calls[3].arg
  /\ Len(get_session_results.classifiers_used) >= 3

\* C10: a log_failure call adds exactly one to the failure counter and leaves the
\* result list and the classifiers-used set as they were; the snapshot after it is
\* the snapshot before it with one more failed file, whatever the path.
C10_LogFailureOnlyCounts ==
  [][(/\ Len(log_calls') = Len(log_calls) + 1
      /\ log_calls'[Len(log_calls')].op = "log_failure")
       => /\ failed_count' = failed_count + 1
          /\ results' = results
          /\ classifiers_used' = classifiers_used
          /\ get_session_results' =
               [get_session_results EXCEPT !.failed_files = @ + 1, !.total_files = @ + 1]]_vars

\* a failure was logged after a result
C10_Witness ==
  /\ Len(log_calls) >= 2
  /\ log_calls[Len(log_calls)].op = "log_failure"
  /\ Len(results) >= 1
  /\ failed_count >= 1

\* C11: a get_session_results call leaves the result list, the classifiers-used set
\* and the failure counter as they were, and two consecutive calls with no log_result
\* or log_failure call between them return equal snapshots.
C11_SnapshotIsPureRead ==
  [][snapshots' # snapshots
       => /\ results' = results
          /\ classifiers_used' = classifiers_used
          /\ failed_count' = failed_count
          /\ (Len(snapshots') = 2 /\ snapshots'[1].calls = snapshots'[2].calls)
               => snapshots'[1].value = snapshots'[2].value]_vars

\* two snapshots were taken in a row of a logger holding results and failures
C11_Witness ==
  /\ Len(snapshots) = 2
  /\ snapshots[1].calls = snapshots[2].calls
  /\ snapshots[2].calls = Len(log_calls)
  /\ results # <<>>
  /\ failed_count >= 1
  /\ snapshots[2].value.total_files = Len(log_calls)

\* C12: the file a completed save leaves holds the counts the logger had when save
\* was called: successful_files and failed_files are the number of logged results
\* and of logged failures at that moment, total_files is their sum.
C12_SaveWritesCountsAtCall ==
  (save_pc = "idle" /\ save_at.taken)
    => LET doc == Loads(output_file.text)
       IN /\ doc.valid
          /\ doc.successful_files = save_at.successful
          /\ doc.failed_files = save_at.failed
          /\ doc.total_files = save_at.successful + save_at.failed

\* a save of a logger holding results and failures completed, and logging went on
C12_Witness ==
  /\ save_pc = "idle"
  /\ save_at.taken
  /\ save_at.successful >= 1
  /\ save_at.failed >= 1
  /\ Len(log_calls) > save_at.successful + save_at.failed
  /\ Loads(output_file.text).valid

\* C13: after a crash during save the file at the output path is what it was when
\* save was called (absent, or the previous content) or the complete serialization
\* of the new snapshot.
C13_SaveIsAtomic ==
  save_pc = "crashed"
    => \/ output_file = save_at.file
       \/ /\ output_file.exists
          /\ Loads(output_file.text).valid
          /\ output_file.text = Dump(session_results)

\* x is at most one half away from the integer c, and c is even when exactly one half
NearestInteger(x, c) ==
  LET twice == 2 * Abs(c * x.d - x.n)
  IN twice < x.d \/ (twice = x.d /\ c % 2 = 0)

\* C14: whenever the engine produces values for a model, segments_per_phrase is at
\* least 1 and the chunk size chunk_predictions uses is max(1, round(segments_per_phrase)):
\* the integer nearest to it, which is then at least 1.
C14_SegmentsPerPhraseAtLeastOne ==
  (fn_pc = "done" /\ fn_in.fn = "model" /\ fn_out.outcome = "ok")
    => /\ RatLeq(Whole(1), fn_out.segments_per_phrase)
       /\ fn_out.chunk_size >= 1
       /\ NearestInteger(fn_out.segments_per_phrase, fn_out.chunk_size)
       /\ \A k \in 1..(Len(fn_out.chunks) - 1) : Len(fn_out.chunks[k]) = fn_out.chunk_size

\* a phrase barely longer than a segment: segments_per_phrase lies between 1 and 2
C14_Witness ==
  /\ fn_pc = "done"
  /\ fn_in.fn = "model"
  /\ fn_out.outcome = "ok"
  /\ fn_out.segments_per_phrase # Whole(1)
  /\ RatLeq(fn_out.segments_per_phrase, Whole(2))
  /\ Len(fn_out.chunks) >= 2

\* the lists of a list, joined in order
RECURSIVE Concat(_)
Concat(lists) ==
  IF lists = <<>> THEN <<>>
  ELSE IF Len(lists) = 1 THEN lists[1]
  ELSE LET half == Len(lists) \div 2
       IN Concat(SubSeq(lists, 1, half)) \o Concat(SubSeq(lists, half + 1, Len(lists)))

\* C15: the chunks chunk_predictions returns for n segments and chunk size c, joined
\* in order, are the input sequence; every chunk but the last holds exactly c
\* segments and the last between 1 and c; there are ceil(n / c) chunks, none for an
\* empty input.
C15_ChunksPartitionSegments ==
  (fn_pc = "done" /\ fn_out.outcome = "ok")
    => LET n == Len(fn_out.predictions)
           c == fn_out.chunk_size
           chunks == fn_out.chunks
           count == Len(chunks)
       IN /\ Concat(chunks) = fn_out.predictions
          /\ \A k \in 1..(count - 1) : Len(chunks[k]) = c
          /\ count > 0 => (1 <= Len(chunks[count]) /\ Len(chunks[count]) <= c)
          /\ count * c >= n
          /\ IF n = 0 THEN count = 0 ELSE (count - 1) * c < n

\* seven segments in chunks of three: two full chunks and a last one of one segment
C15_Witness ==
  /\ fn_pc = "done"
  /\ fn_out.outcome = "ok"
  /\ fn_out.chunk_size = 3
  /\ Len(fn_out.predictions) = 7
  /\ Len(fn_out.chunks) = 3
  /\ Len(fn_out.chunks[3]) = 1

\* column col of a list of rows
Column(rows, col) == [r \in DOMAIN rows |-> rows[r][col]]

\* C16: compute_bar_predictions returns one row per chunk; entry (i, col) is the
\* arithmetic mean of column col of chunk i; aggregated_bar_predictions gives each
\* class paired with a column the unweighted arithmetic mean of that column of the
\* rows, every row weighing the same whatever the length of its chunk.
C16_MeanOfChunkMeans ==
  (fn_pc = "done" /\ fn_out.outcome = "ok")
    => LET chunks == fn_out.chunks
           rows == fn_out.bar_predictions
           aggregated == fn_out.aggregated_bar_predictions
           classes == fn_in.classes
       IN /\ Len(rows) = Len(chunks)
          /\ \A i \in DOMAIN rows :
               /\ Len(rows[i]) = Len(chunks[i][1])
               /\ \A col \in DOMAIN rows[i] :
                    RatMul(rows[i][col], Whole(Len(chunks[i])))
                      = RatSum(Column(chunks[i], col))
          /\ rows = <<>> => DOMAIN aggregated = {}
          /\ rows # <<>> =>
               /\ DOMAIN aggregated =
                    {classes[k] : k \in 1..Min(Len(classes), Len(rows[1]))}
               /\ \A k \in 1..Min(Len(classes), Len(rows[1])) :
                    RatMul(aggregated[classes[k]], Whole(Len(rows)))
                      = RatSum(Column(rows, k))

\* a short last chunk: the mean of the rows is not the mean of all the segments
C16_Witness ==
  /\ fn_pc = "done"
  /\ fn_out.outcome = "ok"
  /\ Len(fn_out.chunks) >= 2
  /\ Len(fn_out.chunks[Len(fn_out.chunks)]) < fn_out.chunk_size
  /\ fn_in.classes # <<>>
  /\ fn_out.aggregated_bar_predictions[fn_in.classes[1]]
       # Mean(Column(fn_out.predictions, 1))

\* C20: for a segment duration of 1.0 s (overlap 0.5) and a phrase duration of 32.0 s
\* the hop duration is 0.5 s, segments_per_phrase is 63.0 and the chunk size 63; a
\* model with 189 segments then gets exactly 3 rows of bar predictions.
C20_ScenarioB ==
  (/\ fn_pc = "done"
   /\ fn_in.fn = "model"
   /\ fn_out.outcome = "ok"
   /\ fn_out.segment_duration = Whole(1)
   /\ fn_out.phrase_duration = Whole(32))
    => /\ fn_out.hop_duration = Rat(1, 2)
       /\ fn_out.segments_per_phrase = Whole(63)
       /\ fn_out.chunk_size = 63
       /\ fn_in.num_segments = 189 => Len(fn_out.bar_predictions) = 3

\* 120 bpm, a patch size of 64 and 189 segments: three chunks of 63 segments
C20_Witness ==
  /\ fn_pc = "done"
  /\ fn_in.fn = "model"
  /\ fn_in.bpm = 120
  /\ fn_in.descriptor = [json |-> "shape", patch_size |-> 64]
  /\ fn_in.num_segments = 189
  /\ fn_out.outcome = "ok"
  /\ fn_out.segment_duration = Whole(1)
  /\ fn_out.phrase_duration = Whole(32)
  /\ Len(fn_out.bar_predictions) = 3
  /\ \A k \in 1..3 : Len(fn_out.chunks[k]) = 63

\* a model of a loaded result holds no segments
NoSegments(model) == model.num_segments = 0 \/ model.segment_predictions = <<>>

HasBarFields(model) ==
  {"bar_predictions", "aggregated_bar_predictions"} \subseteq DOMAIN model

HasNoBarField(model) ==
  {"bar_predictions", "aggregated_bar_predictions"} \cap DOMAIN model = {}

\* the tempo of a result's audio file was estimated and is not zero
TempoFound(item) ==
  pp_env.audio[item.audio_file].exists /\ pp_env.audio[item.audio_file].bpm # 0

\* the hop duration of a model of a loaded result is not zero
HopNotZero(item, model) ==
  hop_duration_of(segment_duration_of(pp_env.descriptor[model.embedding_model_path],
                                      item.audio_duration_seconds,
                                      model.num_segments)).n # 0

\* C17: in a finished result whose tempo was found, a model without segments is left
\* exactly as loaded, without bar_predictions or aggregated_bar_predictions; the
\* models with segments of that result have both fields and the result is counted
\* as successful (when no model of it has a zero hop duration).
C17_EmptyModelSkipped ==
  \A i \in DOMAIN pp_outcomes :
    LET loaded == pp_input.results[i]
        now == pp_data.results[i]
        empty == {j \in DOMAIN loaded.models : NoSegments(loaded.models[j])}
        full == DOMAIN loaded.models \ empty
    IN (TempoFound(loaded) /\ empty # {})
         => /\ \A j \in empty :
                 /\ HasNoBarField(now.models[j])
                 /\ now.models[j] = loaded.models[j]
            /\ (\A j \in full : HopNotZero(loaded, loaded.models[j]))
                 => /\ pp_outcomes[i] = "ok"
                    /\ \A j \in full : HasBarFields(now.models[j])

\* a result with a model without segments before a model with segments was finished
C17_Witness ==
  /\ pp_outcomes # <<>>
  /\ pp_outcomes[1] = "ok"
  /\ Len(pp_input.results[1].models) = 2
  /\ NoSegments(pp_input.results[1].models[1])
  /\ HasNoBarField(pp_data.results[1].models[1])
  /\ HasBarFields(pp_data.results[1].models[2])
  /\ Len(pp_data.results[1].models[2].bar_predictions) >= 1

\* C18: a finished result whose audio file is not on disk is exactly the loaded
\* record (no bpm, phrase_duration_seconds or bar field) and is counted as failed;
\* the run goes on: at its end every result has been visited, the failed counter is
\* the number of failed results, and the results that can be processed are
\* successful.
C18_MissingAudioSkipsItem ==
  /\ \A i \in DOMAIN pp_outcomes :
       ~pp_env.audio[pp_input.results[i].audio_file].exists
         => /\ pp_data.results[i] = pp_input.results[i]
            /\ {"bpm", "phrase_duration_seconds"} \cap DOMAIN pp_data.results[i] = {}
            /\ pp_outcomes[i] = "failed"
  /\ pp_pc \in {"loop", "save", "done"} =>
       pp_summary.failed_files = Cardinality({i \in DOMAIN pp_outcomes : pp_outcomes[i] = "failed"})
  /\ pp_pc = "done" =>
       /\ Len(pp_outcomes) = Len(pp_input.results)
       /\ \A i \in DOMAIN pp_outcomes :
            LET loaded == pp_input.results[i]
            IN (/\ TempoFound(loaded)
                /\ \A j \in DOMAIN loaded.models :
                     NoSegments(loaded.models[j]) \/ HopNotZero(loaded, loaded.models[j]))
                 => /\ pp_outcomes[i] = "ok"
                    /\ "bpm" \in DOMAIN pp_data.results[i]

\* the first audio file is missing and the second result was processed all the same
C18_Witness ==
  /\ pp_pc = "done"
  /\ Len(pp_outcomes) = 2
  /\ ~pp_env.audio[pp_input.results[1].audio_file].exists
  /\ pp_outcomes = <<"failed", "ok">>
  /\ pp_written.results[1] = pp_input.results[1]
  /\ \E j \in DOMAIN pp_written.results[2].models : HasBarFields(pp_written.results[2].models[j])

\* the places (result, model) of the loaded document
Places ==
  {<<i, j>> \in (1..MaxItems) \X (1..2) :
     i \in DOMAIN pp_outcomes /\ j \in DOMAIN pp_input.results[i].models}

\* two places hold identical inputs of the phrase aggregation
SameInputs(p, q) ==
  LET a == pp_input.results[p[1]]
      b == pp_input.results[q[1]]
      x == a.models[p[2]]
      y == b.models[q[2]]
  IN /\ x.segment_predictions = y.segment_predictions
     /\ x.num_segments = y.num_segments
     /\ x.classes = y.classes
     /\ pp_env.audio[a.audio_file].bpm = pp_env.audio[b.audio_file].bpm
     /\ a.audio_duration_seconds = b.audio_duration_seconds
     /\ segment_duration_of(pp_env.descriptor[x.embedding_model_path],
                            a.audio_duration_seconds, x.num_segments)
          = segment_duration_of(pp_env.descriptor[y.embedding_model_path],
                                b.audio_duration_seconds, y.num_segments)

HandlesKept(before, after) ==
  \A k \in DOMAIN before : k \in DOMAIN after /\ after[k] = before[k]

\* C21: across the analyze_audio calls of a pipeline no step replaces or removes a
\* cached extractor or classifier handle, every cached handle is the first one ever
\* built for its key (its embedding-model name, its artifact path), and a step that
\* empties the embeddings cache leaves both handle caches as they were.
C21_HandlesBuiltOnce ==
  [][/\ HandlesKept(embedding_extractors, embedding_extractors')
     /\ HandlesKept(classifiers, classifiers')
     /\ \A k \in DOMAIN embedding_extractors' : embedding_extractors'[k].generation = 1
     /\ \A k \in DOMAIN classifiers' : classifiers'[k].generation = 1
     /\ (embeddings_cache # <<>> /\ embeddings_cache' = <<>>)
          => /\ embedding_extractors' = embedding_extractors
             /\ classifiers' = classifiers]_vars

\* a second item of a batch has extracted embeddings anew, after the first item
\* returned and its cache was cleared, with the handles of the first item in place
C21_Witness ==
  /\ batch_i >= 1
  /\ batch_results # <<>>
  /\ aa_pc = "classifiers"
  /\ run_log # <<>>
  /\ run_log[1].extract = "ok"
  /\ run_log[1].ok
  /\ DOMAIN embedding_extractors # {}
  /\ DOMAIN classifiers # {}

\* two embedding model configurations name the same model: same family, same name
SameEmbeddingModel(a, b) == a.algorithm = b.algorithm /\ a.name = b.name

\* C22: within an item, the extractor handle a classifier's run obtained and the
\* embeddings it was given are those of its own embedding model (algorithm family
\* and model name), and two classifiers were given the same embeddings entry exactly
\* when their embedding models agree on both family and name.
C22_SharedOnlyWithinFamily ==
  \A i \in DOMAIN run_log :
    LET e == run_log[i]
        emb == classifier_configs[i].embedding_model
    IN /\ e.extractor.some => SameEmbeddingModel(e.extractor.value.config, emb)
       /\ e.embeddings.some
            => /\ e.embeddings.value.algorithm = emb.algorithm
               /\ e.embeddings.value.model = emb.name
       /\ \A j \in DOMAIN run_log :
            (i < j /\ e.embeddings.some /\ run_log[j].embeddings.some)
              => ((e.embeddings = run_log[j].embeddings)
                    <=> SameEmbeddingModel(emb, classifier_configs[j].embedding_model))

\* the sample rate the first configured classifier's embedding model declares
FirstRate == classifier_configs[1].embedding_model.sample_rate

\* C23: an analyze_audio call loads the audio at most once; while its classifiers
\* run and after it returned, exactly one signal was loaded, from the call's path at
\* the first configured classifier's embedding model's sample rate, the record's
\* sample_rate is that rate, and every classifier handled so far was run on that
\* signal. A pipeline without classifiers never loads audio: every call raises.
C23_LoadedOnceAtFirstRate ==
  /\ Len(loads) <= 1
  /\ (aa_pc = "classifiers" \/ aa_outcome = "returned")
       => /\ loads = <<[path |-> audio_path, sample_rate |-> FirstRate]>>
          /\ result.sample_rate = FirstRate
  /\ \A i \in DOMAIN run_log : Len(loads) = 1 /\ run_log[i].audio = loads[1]
  /\ classifier_configs = <<>>
       => /\ loads = <<>>
          /\ run_log = <<>>
          /\ aa_pc = "idle"
          /\ aa_outcome # "returned"
          /\ Len(batch_errors) = batch_i
          /\ batch_results = <<>>

\* a call has returned in which a classifier whose embedding model declares another
\* rate than the first one's was run, after the first, on the one loaded signal
C23_Witness ==
  /\ aa_outcome = "returned"
  /\ Len(run_log) >= 2
  /\ \E i \in DOMAIN run_log :
       /\ i > 1
       /\ classifier_configs[i].embedding_model.sample_rate # FirstRate
       /\ run_log[i].ok
       /\ run_log[i].audio.sample_rate = FirstRate

\* the loop iterations of the current item whose classifier references the
\* embedding model named n
Referencing(n) ==
  {i \in DOMAIN run_log : classifier_configs[i].embedding_model.name = n}

\* C24: an iteration whose extraction raised leaves no cache entry for its embedding
\* model and adds no prediction; as long as every extraction for a model has raised
\* in the item, the extractor was called once per classifier referencing that model
\* that the loop has reached, and the item's cache holds nothing for the model.
C24_FailedExtractionNotCached ==
  \A n \in EmbNames :
    /\ \A i \in Referencing(n) :
         run_log[i].extract = "error"
           => ~run_log[i].embeddings.some /\ ~run_log[i].ok
    /\ (\A i \in Referencing(n) : run_log[i].extract = "error")
         => /\ extract_calls[n] = Cardinality(Referencing(n))
            /\ <<audio_path, n>> \notin DOMAIN embeddings_cache

\* two classifiers of one item reference the same embedding model, and the
\* extraction raised for both
C24_Witness ==
  \E n \in EmbNames :
    /\ Cardinality(Referencing(n)) >= 2
    /\ \A i \in Referencing(n) : run_log[i].extract = "error"
    /\ extract_calls[n] >= 2

\* C25: for a model with segments of a result whose tempo was found, whatever
\* segment duration the engine derives (from a published patch size of at least 1,
\* or as audio duration over segment count), whenever the phrase is longer than the
\* segment, so that line 306 divides by the hop duration, that hop duration is
\* strictly positive and the division does not raise.
C25_HopDurationPositive ==
  (/\ fn_pc = "done"
   /\ fn_in.fn = "model"
   /\ fn_in.bpm # 0
   /\ fn_in.num_segments # 0)
    => LET phrase_duration == calculate_phrase_duration(Whole(fn_in.bpm))
           segment_duration ==
             segment_duration_of(fn_in.descriptor, fn_in.audio_duration,
                                 fn_in.num_segments)
           hop_duration == hop_duration_of(segment_duration)
       IN ~RatLeq(phrase_duration, segment_duration)
            => /\ hop_duration.n > 0
               /\ fn_out.outcome # "raised"

\* C26: whenever the registry resolves an embedding model from a layout of its
\* files, the segment-duration lookup, given the artifact path the registry
\* recorded, reads the descriptor the registry read and returns a segment duration
\* derived from its patch size, so that the caller does not fall back.
C26_LookupFindsRegistryDescriptor ==
  (fn_pc = "done" /\ fn_in.fn = "layout" /\ fn_out.outcome = "resolved")
    => /\ fn_out.json_path = fn_out.config.json_at
       /\ fn_out.published.some

\* the record now holds every field the record before held, with the same value,
\* but for the fields named in except, and no new field but those named in added
OnlyAdds(before, now, added, except) ==
  /\ DOMAIN before \subseteq DOMAIN now
  /\ DOMAIN now \ DOMAIN before \subseteq added
  /\ \A f \in DOMAIN before \ except : now[f] = before[f]

\* C27: at every point of a run, and in the document written, every result and
\* every model of the loaded document is still there with all its loaded fields
\* unchanged (audio_file, audio_duration_seconds, sample_rate; classes, num_segments,
\* segment_predictions, aggregated_predictions among them), whether the result
\* succeeded, was skipped or failed; the only fields added are bpm and
\* phrase_duration_seconds on results, bar_predictions and aggregated_bar_predictions
\* on models.
C27_OnlyAddsFields ==
  pp_pc \in {"loop", "models", "done"}
    => /\ pp_pc = "done" => pp_written = pp_data
       /\ OnlyAdds(pp_input, pp_data, {}, {"results"})
       /\ Len(pp_data.results) = Len(pp_input.results)
       /\ \A i \in DOMAIN pp_input.results :
            LET loaded == pp_input.results[i]
                now == pp_data.results[i]
            IN /\ OnlyAdds(loaded, now, {"bpm", "phrase_duration_seconds"}, {"models"})
               /\ Len(now.models) = Len(loaded.models)
               /\ \A j \in DOMAIN loaded.models :
                    OnlyAdds(loaded.models[j], now.models[j],
                             {"bar_predictions", "aggregated_bar_predictions"}, {})

\* a written document of two results, one counted as failed and one as successful,
\* in which a model was given bar fields and another was left without
C27_Witness ==
  /\ pp_pc = "done"
  /\ Len(pp_outcomes) = 2
  /\ Range(pp_outcomes) = {"ok", "failed"}
  /\ \E p \in Places : HasBarFields(pp_written.results[p[1]].models[p[2]])
  /\ \E p \in Places :
       /\ pp_outcomes[p[1]] = "ok"
       /\ HasNoBarField(pp_written.results[p[1]].models[p[2]])

\* C28: in the document written, a result counted in failed_files carries neither
\* bpm nor phrase_duration_seconds, and none of its models carries bar_predictions
\* or aggregated_bar_predictions.
C28_FailedItemsUntouched ==
  pp_pc = "done"
    => \A i \in DOMAIN pp_outcomes :
         pp_outcomes[i] = "failed"
           => /\ {"bpm", "phrase_duration_seconds"} \cap DOMAIN pp_written.results[i] = {}
              /\ \A j \in DOMAIN pp_written.results[i].models :
                   HasNoBarField(pp_written.results[i].models[j])

\* the entries of a sequence that equal v
CountOf(seq, v) == Cardinality({i \in DOMAIN seq : seq[i] = v})

\* C29: throughout a run total_files is the number of results of the input session
\* and every result the loop has finished is counted exactly once, as successful or
\* as failed; after a failure the loop stands before the next result or before the
\* write, never stopped; when the document is written, successful_files +
\* failed_files = total_files and the written document holds every result, also
\* when every item failed.
C29_EveryItemCountedOnce ==
  /\ pp_pc \in {"loop", "models", "done"}
       => /\ pp_summary.total_files = Len(pp_input.results)
          /\ Len(pp_outcomes) = pp_i
          /\ pp_summary.successful_files = CountOf(pp_outcomes, "ok")
          /\ pp_summary.failed_files = CountOf(pp_outcomes, "failed")
          /\ Len(pp_summary.results) = pp_summary.successful_files
  /\ pp_pc = "loop" => pp_i <= Len(pp_data.results)
  /\ pp_pc = "models"
       => /\ pp_i < Len(pp_data.results)
          /\ pp_m <= Len(pp_data.results[pp_i + 1].models)
  /\ pp_pc = "done"
       => /\ pp_summary.successful_files + pp_summary.failed_files
               = pp_summary.total_files
          /\ Len(pp_outcomes) = Len(pp_input.results)
          /\ "results" \in DOMAIN pp_written
          /\ Len(pp_written.results) = pp_summary.total_files

\* the first result raised although its audio file was there, the second result
\* was processed after it and succeeded, and the document was written
C29_Witness ==
  /\ pp_pc = "done"
  /\ pp_outcomes = <<"failed", "ok">>
  /\ pp_env.audio[pp_input.results[1].audio_file].exists
  /\ Len(pp_written.results) = 2
  /\ pp_summary.failed_files = 1
  /\ pp_summary.successful_files = 1

LogFailureCalls == SelectSeq(log_calls, LAMBDA c : c.op = "log_failure")

\* the snapshot get_session_results would return now adds up
SnapshotAddsUp ==
  LET snapshot == get_session_results
      used == snapshot.classifiers_used
  IN /\ snapshot.total_files = snapshot.successful_files + snapshot.failed_files
     /\ snapshot.successful_files = Len(snapshot.results)
     /\ snapshot.failed_files = Len(LogFailureCalls)
     /\ \A i, j \in DOMAIN used :
          i < j => Rank(NameOrder, used[i]) < Rank(NameOrder, used[j])

\* C30: after any sequence of log_result and log_failure calls the snapshot has
\* total_files = successful_files + failed_files, successful_files = the number of
\* its results, failed_files = the number of log_failure calls so far, and
\* classifiers_used in strictly increasing order; no call makes any of the three
\* counts smaller.
C30_SnapshotCountsAddUp ==
  /\ []SnapshotAddsUp
  /\ [][/\ Len(results') + failed_count' >= Len(results) + failed_count
        /\ Len(results') >= Len(results)
        /\ failed_count' >= failed_count]_vars

\* two failures were logged around a record with several classifiers
C30_Witness ==
  /\ Len(log_calls) = 3
  /\ log_calls[1].op = "log_failure"
  /\ log_calls[2].op = "log_result"
  /\ log_calls[3].op = "log_failure"
  /\ get_session_results.total_files = 3
  /\ get_session_results.failed_files = 2
  /\ Len(get_session_results.classifiers_used) >= 2

====
